---------------------------- MODULE Spec2Model ----------------------------
(***************************************************************************)
(* Model of the WAF gateway (jiniyasshah/optimize, gateway/...).           *)
(*                                                                         *)
(* The module holds several specifications over one set of variables:      *)
(*   SpecDecide  - the decision maker, a pure function, on bounded inputs  *)
(*   Spec        - the request pipeline, the policy cache and its reload   *)
(*   SpecDomain  - domain lifecycle and the domain-level proxy toggle      *)
(*                 (internal/handler/domain.go)                            *)
(*   SpecDns     - record-level DNS controller (internal/api/dns.go)       *)
(* A specification leaves the variables of the other ones unchanged.       *)
(*                                                                         *)
(* Conventions: ML confidences are integers in hundredths (0.80 is 80);    *)
(* FQDNs are sequences of labels (<<"www","a","example">>), so that the    *)
(* code's string splitting is computed, not assumed; collections are       *)
(* sequences in insertion order; a map is a function on its present keys.  *)
(***************************************************************************)
EXTENDS Integers, Sequences, FiniteSets, Bags, TLC

VARIABLES
    \* --- decision maker call (SpecDecide)
    dcall,
    \* --- intent store (MongoDB collections)
    domains,      \* collection "domains": sequence of Domain rows
    dnsRecords,   \* collection "dns_records": sequence of DNSRecord rows
    rules,        \* collection "rules": sequence of WAFRule rows
    policies,     \* collection "rule_policies": sequence of RulePolicy rows
    \* --- resolver store (PowerDNS SQL tables)
    pdnsZones,    \* table "domains": set of zone names
    pdnsRecords,  \* table "records": sequence of rows, position = auto id
    \* --- policy cache of WAFHandler
    domainMap,    \* host -> Domain
    domainRules,  \* host -> sequence of WAFRule
    rulesMutex,   \* sync.RWMutex: [writer : BOOLEAN, readers : Nat]
    reload,       \* the running ReloadRules call: its position and locals
    reloadQ,      \* ReloadRules calls waiting for the write lock
    \* --- request pipeline
    reqs,         \* request id -> the request and the handler's locals
    clients,      \* RateLimiter.clients: ip -> ClientStatus
    now,          \* wall clock, in ticks
    statsBuffer,  \* WAFService.statsBuffer: domain id -> statsDelta
    lastAlert,    \* NotificationService.lastAlert keys (throttled hosts)
    emitted,      \* log events handed to LogAttack, in call order
    logTasks,     \* LogAttack goroutines not yet run
    logCollection,\* collection "logs"
    broadcast,    \* the buffered broadcast channel
    \* --- admin calls in flight (domain lifecycle, DNS controller)
    calls,        \* call id -> handler position and locals
    tasks,        \* background goroutines started by handlers, not yet run
    nextId,       \* ObjectID generator
    budget,       \* number of admin operations the tenants still issue
    rdap,         \* registrar: domain name -> set of nameservers it lists
    \* --- history (not program state)
    hist

vars == << dcall, domains, dnsRecords, rules, policies, pdnsZones, pdnsRecords,
           domainMap, domainRules, rulesMutex, reload, reloadQ, reqs, clients,
           now, statsBuffer, lastAlert, emitted, logTasks, logCollection,
           broadcast, calls, tasks, nextId, budget, rdap, hist >>

Nil == "nil"

(***************************************************************************)
(* Decision maker: internal/detector/decision_maker.go                     *)
(***************************************************************************)
Block == "BLOCK"
Monitor == "MONITOR"
Allow == "ALLOW"

\* thresholds of Decide, in points and hundredths
BlockScore == 15
HybridScore == 10
BlockConfidence == 80
MonitorConfidence == 65
HybridConfidence == 40

\* a plausible slip: the medium-risk threshold compared with >=
DecideMonitorGe(ruleScore, ruleBlock, mlAnomaly, mlConfidence) ==
    IF ruleBlock
      THEN [verdict |-> Block, reason |-> "Critical Rule Match", source |-> "Rule Engine"]
    ELSE IF ruleScore >= BlockScore
      THEN [verdict |-> Block, reason |-> "High Risk Rule Score", source |-> "Rule Engine"]
    ELSE IF mlConfidence > BlockConfidence
      THEN [verdict |-> Block, reason |-> "AI/Hybrid Anomaly Detected", source |-> "ML Engine"]
    ELSE IF mlConfidence >= MonitorConfidence
      THEN [verdict |-> Monitor, reason |-> "Suspicious Activity (Medium Risk)", source |-> "ML Engine"]
    ELSE IF ruleScore >= HybridScore /\ mlConfidence > HybridConfidence
      THEN [verdict |-> Monitor, reason |-> "Combined Rule+ML Suspicion", source |-> "Hybrid"]
    ELSE [verdict |-> Allow, reason |-> "Clean", source |-> "None"]

Decide(ruleScore, ruleBlock, mlAnomaly, mlConfidence) ==
    IF ruleBlock
      THEN [verdict |-> Block, reason |-> "Critical Rule Match", source |-> "Rule Engine"]
    ELSE IF ruleScore >= BlockScore
      THEN [verdict |-> Block, reason |-> "High Risk Rule Score", source |-> "Rule Engine"]
    ELSE IF mlConfidence > BlockConfidence
      THEN [verdict |-> Block, reason |-> "AI/Hybrid Anomaly Detected", source |-> "ML Engine"]
    ELSE IF mlConfidence > MonitorConfidence
      THEN [verdict |-> Monitor, reason |-> "Suspicious Activity (Medium Risk)", source |-> "ML Engine"]
    ELSE IF ruleScore >= HybridScore /\ mlConfidence > HybridConfidence
      THEN [verdict |-> Monitor, reason |-> "Combined Rule+ML Suspicion", source |-> "Hybrid"]
    ELSE [verdict |-> Allow, reason |-> "Clean", source |-> "None"]

\* bounds of the inputs Decide is applied to
MaxScore == 20
MaxConfidence == 100

NoVerdict == [verdict |-> Nil, reason |-> "", source |-> ""]

NoCall == [done |-> FALSE, ruleScore |-> 0, ruleBlock |-> FALSE,
           mlAnomaly |-> FALSE, mlConfidence |-> 0,
           out |-> NoVerdict, again |-> NoVerdict]

\* the variables SpecDecide does not use
restOfDecide == << domains, dnsRecords, rules, policies, pdnsZones, pdnsRecords,
                   domainMap, domainRules, rulesMutex, reload, reloadQ, reqs,
                   clients, now, statsBuffer, lastAlert, emitted, logTasks,
                   logCollection, broadcast, calls, tasks, nextId, budget, rdap,
                   hist >>

InitRestIdle ==
    /\ domains = << >> /\ dnsRecords = << >> /\ rules = << >> /\ policies = << >>
    /\ pdnsZones = {} /\ pdnsRecords = << >>
    /\ domainMap = << >> /\ domainRules = << >>
    /\ rulesMutex = [writer |-> FALSE, readers |-> 0]
    /\ reload = [pc |-> "idle"] /\ reloadQ = 0
    /\ reqs = << >> /\ clients = << >> /\ now = 0
    /\ statsBuffer = << >> /\ lastAlert = {}
    /\ emitted = << >> /\ logTasks = {} /\ logCollection = << >> /\ broadcast = << >>
    /\ calls = << >> /\ tasks = << >> /\ nextId = 1 /\ budget = 0 /\ rdap = << >>
    /\ hist = << >>

InitDecide ==
    /\ \E s \in 0..MaxScore, b \in BOOLEAN, a \in BOOLEAN, c \in 0..MaxConfidence :
          dcall = [NoCall EXCEPT !.ruleScore = s, !.ruleBlock = b,
                                 !.mlAnomaly = a, !.mlConfidence = c]
    /\ InitRestIdle

\* one call of Decide on the drawn inputs
CallDecide ==
    /\ ~dcall.done
    /\ dcall' = [dcall EXCEPT
                   !.done = TRUE,
                   !.out = Decide(dcall.ruleScore, dcall.ruleBlock,
                                  dcall.mlAnomaly, dcall.mlConfidence)]
    /\ UNCHANGED restOfDecide

\* a second call with the same rule score, hard-block flag and confidence and
\* the other value of mlAnomaly
CallDecideAgain ==
    /\ dcall.done /\ dcall.again = NoVerdict
    /\ dcall' = [dcall EXCEPT
                   !.again = Decide(dcall.ruleScore, dcall.ruleBlock,
                                    ~dcall.mlAnomaly, dcall.mlConfidence)]
    /\ UNCHANGED restOfDecide

NextDecide == CallDecide \/ CallDecideAgain

SpecDecide == InitDecide /\ [][NextDecide]_vars

\* the row of the decision table that matches first, written row by row
TableVerdict(score, hardBlock, confidence) ==
    CASE hardBlock -> Block
      [] ~hardBlock /\ score >= 15 -> Block
      [] ~hardBlock /\ score < 15 /\ confidence > 80 -> Block
      [] ~hardBlock /\ score < 15 /\ confidence <= 80 /\ confidence > 65 -> Monitor
      [] ~hardBlock /\ score < 15 /\ confidence <= 65
            /\ score >= 10 /\ confidence > 40 -> Monitor
      [] OTHER -> Allow

\* C3: Decide returns the verdict of the first matching row of the table
\* (hard block, score >= 15, confidence > 0.80 give Block; confidence > 0.65,
\* or score >= 10 with confidence > 0.40, give Monitor; otherwise Allow), the
\* result does not change with ml_is_anomaly, and the four boundary points
\* (15 -> Block, 14 with 0.81 -> Block, 10 with 0.41 -> Monitor, 9 with
\* 0.65 -> Allow) come out as stated.
C3_DecideTable ==
    /\ dcall.done =>
          dcall.out.verdict =
             TableVerdict(dcall.ruleScore, dcall.ruleBlock, dcall.mlConfidence)
    /\ dcall.again # NoVerdict => dcall.again = dcall.out
    /\ (dcall.done /\ ~dcall.ruleBlock) =>
          /\ (dcall.ruleScore = 15) => dcall.out.verdict = Block
          /\ (dcall.ruleScore = 14 /\ dcall.mlConfidence = 81) => dcall.out.verdict = Block
          /\ (dcall.ruleScore = 10 /\ dcall.mlConfidence = 41) => dcall.out.verdict = Monitor
          /\ (dcall.ruleScore = 9 /\ dcall.mlConfidence = 65) => dcall.out.verdict = Allow

\* Decide was called on the boundary point score 9, confidence 0.65, no hard
\* block, and then again with the other anomaly flag
C3_Witness ==
    /\ dcall.done /\ dcall.again # NoVerdict
    /\ ~dcall.ruleBlock /\ dcall.ruleScore = 9 /\ dcall.mlConfidence = 65
    /\ dcall.out.verdict = Allow

(***************************************************************************)
(* Data of the gateway                                                     *)
(***************************************************************************)
Tenants == {"t1", "t2"}

\* hosts are sequences of labels
ShopCom == << "shop", "com" >>
WwwShopCom == << "www", "shop", "com" >>
BlogCom == << "blog", "com" >>

\* Go zero value of models.Domain, what a map read returns for a missing key
NoDomain == [id |-> "", userId |-> "", name |-> << >>, status |-> "",
             proxyEnabled |-> FALSE, nameservers |-> << >>]

\* m[k] = v, adding k when absent
Put(m, k, v) == [x \in (DOMAIN m) \cup {k} |-> IF x = k THEN v ELSE m[x]]

\* v, ok := m[k]
Lookup(m, k, zero) == IF k \in DOMAIN m THEN m[k] ELSE zero

(***************************************************************************)
(* Policy cache: ReloadRules, internal/proxy/handler.go                    *)
(***************************************************************************)
\* handler.go 106-111: the active domains, by name and by id
RECURSIVE MapActiveDomains(_, _, _)
MapActiveDomains(doms, i, m) ==
    IF i > Len(doms) THEN m
    ELSE MapActiveDomains(doms, i + 1,
            IF doms[i].status = "active" THEN Put(m, doms[i].name, doms[i]) ELSE m)

RECURSIVE ActiveDomainsByID(_, _, _)
ActiveDomainsByID(doms, i, m) ==
    IF i > Len(doms) THEN m
    ELSE ActiveDomainsByID(doms, i + 1,
            IF doms[i].status = "active" THEN Put(m, doms[i].id, doms[i]) ELSE m)

\* handler.go 114-118: every record of an active domain maps its name to the
\* parent domain, overwriting what is there
RECURSIVE MapSubdomains(_, _, _, _)
MapSubdomains(recs, byId, i, m) ==
    IF i > Len(recs) THEN m
    ELSE MapSubdomains(recs, byId, i + 1,
            IF recs[i].domainId \in DOMAIN byId
              THEN Put(m, recs[i].name, byId[recs[i].domainId]) ELSE m)

\* a cache that maps the records of every domain, active or not
BuildDomainMapAnyStatus(doms, recs) ==
    MapSubdomains(recs,
                  [id \in {doms[i].id : i \in DOMAIN doms} |->
                      doms[CHOOSE i \in DOMAIN doms : doms[i].id = id]],
                  1, MapActiveDomains(doms, 1, << >>))

\* handler.go 103-120: the new domain map
BuildDomainMap(doms, recs) ==
    MapSubdomains(recs, ActiveDomainsByID(doms, 1, << >>), 1,
                  MapActiveDomains(doms, 1, << >>))

\* handler.go 135-138: policyMap[(rule, domain)] = enabled, later rows win
RECURSIVE PolicyMap(_, _, _)
PolicyMap(pols, i, m) ==
    IF i > Len(pols) THEN m
    ELSE PolicyMap(pols, i + 1,
                   Put(m, << pols[i].ruleId, pols[i].domainId >>, pols[i].enabled))

\* handler.go 141-149: domain specific > global > default on
isEnabled(ruleID, domainID, pm) ==
    IF << ruleID, domainID >> \in DOMAIN pm THEN pm[<< ruleID, domainID >>]
    ELSE IF << ruleID, "" >> \in DOMAIN pm THEN pm[<< ruleID, "" >>]
    ELSE TRUE

\* the rules of s that are enabled for domain d, in order
RECURSIVE EnabledFor(_, _, _, _)
EnabledFor(s, i, d, pm) ==
    IF i > Len(s) THEN << >>
    ELSE (IF isEnabled(s[i].id, d.id, pm) THEN << s[i] >> ELSE << >>)
            \o EnabledFor(s, i + 1, d, pm)

RECURSIVE RulesOwnedBy(_, _, _)
RulesOwnedBy(allRules, i, owner) ==
    IF i > Len(allRules) THEN << >>
    ELSE (IF allRules[i].ownerId = owner THEN << allRules[i] >> ELSE << >>)
            \o RulesOwnedBy(allRules, i + 1, owner)

\* handler.go 159-175: global rules first, then the owner's private rules
EffectiveRules(allRules, pm, d) ==
    EnabledFor(RulesOwnedBy(allRules, 1, ""), 1, d, pm)
       \o (IF d.userId = "" THEN << >>
           ELSE EnabledFor(RulesOwnedBy(allRules, 1, d.userId), 1, d, pm))

\* handler.go 181-185
RECURSIVE AssignSubdomains(_, _, _, _, _)
AssignSubdomains(recs, i, d, eff, m) ==
    IF i > Len(recs) THEN m
    ELSE AssignSubdomains(recs, i + 1, d, eff,
            IF recs[i].domainId = d.id THEN Put(m, recs[i].name, eff) ELSE m)

\* handler.go 154-186
RECURSIVE AssignDomains(_, _, _, _, _, _)
AssignDomains(doms, i, allRules, pm, recs, m) ==
    IF i > Len(doms) THEN m
    ELSE AssignDomains(doms, i + 1, allRules, pm, recs,
            IF doms[i].status # "active" THEN m
            ELSE AssignSubdomains(recs, 1, doms[i],
                    EffectiveRules(allRules, pm, doms[i]),
                    Put(m, doms[i].name, EffectiveRules(allRules, pm, doms[i]))))

BuildDomainRules(allRules, pols, doms, recs) ==
    AssignDomains(doms, 1, allRules, PolicyMap(pols, 1, << >>), recs, << >>)

(***************************************************************************)
(* Rate limiter: internal/limiter/limiter.go                               *)
(***************************************************************************)
\* limiter.New(limit, window): the budget per window and the window length,
\* in ticks of the model clock
RateLimit == 1
WindowTicks == 2

\* now.Truncate(rl.window)
Truncate(t) == t - (t % WindowTicks)

\* a roll that carries the count of the old window into the new one
RollWindowKeepingCount(status, cws) ==
    IF cws > status.CurrWindowStart
      THEN [CurrCount |-> status.CurrCount, PrevCount |-> status.CurrCount,
            CurrWindowStart |-> cws]
      ELSE status

\* limiter.go 50-66: roll the window of a known client
RollWindow(status, cws) ==
    IF cws > status.CurrWindowStart
      THEN IF (cws - status.CurrWindowStart) \div WindowTicks = 1
             THEN [CurrCount |-> 0, PrevCount |-> status.CurrCount,
                   CurrWindowStart |-> cws]
             ELSE [CurrCount |-> 0, PrevCount |-> 0, CurrWindowStart |-> cws]
      ELSE status

\* a limiter that blocks only above the limit
OverLimitStrict(status, t) ==
    status.PrevCount * (WindowTicks - (t - Truncate(t)))
       + status.CurrCount * WindowTicks > RateLimit * WindowTicks

\* limiter.go 68-79: PrevCount * prevWeight + CurrCount >= limit, where
\* prevWeight = (window - timeIntoWindow) / window; both sides times window
OverLimit(status, t) ==
    status.PrevCount * (WindowTicks - (t - Truncate(t)))
       + status.CurrCount * WindowTicks >= RateLimit * WindowTicks

\* limiter.go 29-84: the result and the clients map after the call
RateLimiterAllow(cl, ip, t) ==
    IF ip \notin DOMAIN cl
      THEN [ok |-> TRUE,
            clients |-> Put(cl, ip, [CurrCount |-> 1, PrevCount |-> 0,
                                     CurrWindowStart |-> Truncate(t)])]
    ELSE IF OverLimit(RollWindow(cl[ip], Truncate(t)), t)
      THEN [ok |-> FALSE, clients |-> Put(cl, ip, RollWindow(cl[ip], Truncate(t)))]
    ELSE [ok |-> TRUE,
          clients |-> Put(cl, ip,
             [RollWindow(cl[ip], Truncate(t)) EXCEPT !.CurrCount = @ + 1])]

(***************************************************************************)
(* Rule engine: detector.CheckRequest                                      *)
(***************************************************************************)
\* A compiled regular expression is the set of payloads it matches.
evaluate(cond, req, isRateLimited) ==
    CASE cond.field = "request.combined" -> req.payload \in cond.matches
      [] cond.field = "meta.rate_limited" ->
            cond.operator = "equals_bool" /\ isRateLimited = cond.value
      [] OTHER -> FALSE

RECURSIVE AllConditions(_, _, _, _)
AllConditions(conds, i, req, isRateLimited) ==
    IF i > Len(conds) THEN TRUE
    ELSE IF ~evaluate(conds[i], req, isRateLimited) THEN FALSE
    ELSE AllConditions(conds, i + 1, req, isRateLimited)

RuleMatches(rule, req, isRateLimited) ==
    rule.enabled /\ AllConditions(rule.conditions, 1, req, isRateLimited)

RECURSIVE EngineLoop(_, _, _, _, _)
EngineLoop(rs, i, req, isRateLimited, acc) ==
    IF i > Len(rs) THEN acc
    ELSE EngineLoop(rs, i + 1, req, isRateLimited,
            IF RuleMatches(rs[i], req, isRateLimited)
              THEN [score |-> acc.score + rs[i].scoreAdd,
                    tags |-> acc.tags \o rs[i].tags,
                    block |-> acc.block \/ rs[i].hardBlock,
                    payload |-> acc.payload]
              ELSE acc)

DetectorCheckRequest(req, rs, isRateLimited) ==
    EngineLoop(rs, 1, req, isRateLimited,
               [score |-> 0, tags |-> << >>, block |-> FALSE, payload |-> req.payload])

(***************************************************************************)
(* ML scorer: detector.CheckML                                             *)
(***************************************************************************)
\* every failure of the call gives the zero result
MLZero == [isAnomaly |-> FALSE, confidence |-> 0, tag |-> "", trigger |-> ""]

\* answers of the scorer service
MLAnswers ==
    { [isAnomaly |-> TRUE, confidence |-> 91, tag |-> "SQLi", trigger |-> "ml-trigger"],
      [isAnomaly |-> FALSE, confidence |-> 50, tag |-> "Normal", trigger |-> ""] }

\* what the call to the scorer service can end in: a transport error, or a
\* response with a status, a body that decodes or not, and the decoded body
\* (an error document decodes to the zero result)
MLOutcomes ==
    { [err |-> e, status |-> 0, decodes |-> FALSE, body |-> MLZero] :
         e \in {"network", "timeout"} }
    \cup { [err |-> "", status |-> st, decodes |-> FALSE, body |-> MLZero] :
              st \in {200, 500} }
    \cup { [err |-> "", status |-> st, decodes |-> TRUE, body |-> b] :
              st \in {200, 500}, b \in MLAnswers \cup {MLZero} }

\* detector/ml.go 56-71
DetectorCheckML(o) ==
    IF o.err # "" THEN MLZero
    ELSE IF o.status # 200 THEN MLZero
    ELSE IF ~o.decodes THEN MLZero
    ELSE o.body

\* service/detector/ml.go 44-55: no status check, the tag ML_Error on errors
ServiceDetectorCheckML(o) ==
    IF o.err # "" THEN [MLZero EXCEPT !.tag = "ML_Error"]
    ELSE IF ~o.decodes THEN [MLZero EXCEPT !.tag = "ML_Error"]
    ELSE o.body

\* the results detector.CheckML can return to the pipeline
CheckML == {DetectorCheckML(o) : o \in MLOutcomes}

(***************************************************************************)
(* Request pipeline: WAFHandler.ServeHTTP, internal/proxy/handler.go       *)
(***************************************************************************)
MaxReqs == 2
ClientIPs == {"ip1"}
Payloads == {"sqli", "probe"}
RequestHosts == {ShopCom, WwwShopCom}
\* what the origin answers to a forwarded request
OriginStatuses == {200}
\* capacity of the broadcast channel
BroadcastCap == 100

NewRequest(variant, host, ip, payload) ==
    [variant |-> variant, host |-> host, ip |-> ip, payload |-> payload,
     pc |-> "lookup", configured |-> FALSE, domainInfo |-> NoDomain,
     rules |-> << >>, limited |-> FALSE, score |-> 0, block |-> FALSE,
     tags |-> << >>, ml |-> MLZero, verdict |-> Nil, reason |-> "",
     source |-> "", trigger |-> "", status |-> 0, forwarded |-> FALSE,
     seen |-> 0, raced |-> FALSE, mlCalled |-> FALSE]

\* sync.RWMutex: RLock succeeds when no writer holds the lock
CanRLockUnguarded(mu) == TRUE

CanRLock(mu) == ~mu.writer

\* a ReloadRules call is waiting for the lock or holds it
ReloadInProgress == reloadQ > 0 \/ reload.pc # "idle"

\* Lock succeeds when nobody holds the lock
CanLock(mu) == ~mu.writer /\ mu.readers = 0

restOfPipeline == << dcall, calls, tasks, nextId, rdap >>

\* handler.go 230-242: a request arrives, takes the read lock and reads the
\* host map
ServeHTTPLookup(host, ip, payload) ==
    /\ Len(reqs) < MaxReqs
    /\ CanRLock(rulesMutex)
    /\ rulesMutex' = [rulesMutex EXCEPT !.readers = @ + 1]
    /\ reqs' = Append(reqs,
          [NewRequest("proxy", host, ip, payload) EXCEPT
              !.pc = "rules",
              !.configured = host \in DOMAIN domainMap,
              !.domainInfo = Lookup(domainMap, host, NoDomain),
              !.seen = Len(hist.caches),
              !.raced = ReloadInProgress])
    /\ UNCHANGED << domains, dnsRecords, rules, policies, pdnsZones, pdnsRecords,
                    domainMap, domainRules, reload, reloadQ, clients, now,
                    statsBuffer, lastAlert, emitted, logTasks, logCollection,
                    broadcast, budget, hist, restOfPipeline >>

\* handler.go 243-257: reads the rule map, releases the lock, answers 404 when
\* the host is not configured
ServeHTTPRules(i) ==
    /\ reqs[i].variant = "proxy" /\ reqs[i].pc = "rules"
    /\ rulesMutex' = [rulesMutex EXCEPT !.readers = @ - 1]
    /\ reqs' = [reqs EXCEPT
          ![i].rules = Lookup(domainRules, reqs[i].host, << >>),
          ![i].raced = reqs[i].raced \/ ReloadInProgress,
          ![i].pc = IF reqs[i].configured THEN "inspect" ELSE "done",
          ![i].status = IF reqs[i].configured THEN 0 ELSE 404]
    /\ UNCHANGED << domains, dnsRecords, rules, policies, pdnsZones, pdnsRecords,
                    domainMap, domainRules, reload, reloadQ, clients, now,
                    statsBuffer, lastAlert, emitted, logTasks, logCollection,
                    broadcast, budget, hist, restOfPipeline >>

\* a pipeline that asks the scorer about every request
ShouldCallMLAlways(ruleBlock, ruleScore) == TRUE

\* handler.go 270: the scorer is asked only when the rule engine did not
\* hard-block and the score is below the block score
ShouldCallML(ruleBlock, ruleScore) == ~ruleBlock /\ ruleScore < BlockScore

\* handler.go 277-279
AppendMLTag(tags, ml) ==
    IF ml.tag # "" /\ ml.tag # "Normal" /\ (ml.isAnomaly \/ ml.confidence > 60)
      THEN Append(tags, ml.tag) ELSE tags

\* handler.go 281-284
FinalTrigger(rulePayload, source, ml) ==
    IF source = "ML Engine" \/ (source = "Hybrid" /\ ml.trigger # "")
      THEN ml.trigger ELSE rulePayload

\* the request's locals after steps 3 to 6 (handler.go 260-284), given the
\* limiter's answer and the scorer's answer
Inspected(r, limitReached, ml) ==
    LET eng == DetectorCheckRequest(r, r.rules, limitReached)
        callML == ShouldCallML(eng.block, eng.score)
        mlr == IF callML THEN ml ELSE MLZero
        d == Decide(eng.score, eng.block, mlr.isAnomaly, mlr.confidence)
    IN  [r EXCEPT !.pc = "act", !.limited = limitReached,
                  !.score = eng.score, !.block = eng.block,
                  !.tags = AppendMLTag(eng.tags, mlr), !.ml = mlr,
                  !.mlCalled = callML,
                  !.verdict = d.verdict, !.reason = d.reason, !.source = d.source,
                  !.trigger = FinalTrigger(eng.payload, d.source, mlr)]

\* handler.go 260-284: limiter, rule engine, ML scorer, decision
ServeHTTPInspect(i) ==
    /\ reqs[i].variant = "proxy" /\ reqs[i].pc = "inspect"
    /\ LET lim == RateLimiterAllow(clients, reqs[i].ip, now)
       IN  /\ clients' = lim.clients
           /\ \E ml \in CheckML :
                 /\ Inspected(reqs[i], ~lim.ok, ml).ml = ml
                 /\ reqs' = [reqs EXCEPT ![i] = Inspected(reqs[i], ~lim.ok, ml)]
    /\ UNCHANGED << domains, dnsRecords, rules, policies, pdnsZones, pdnsRecords,
                    domainMap, domainRules, rulesMutex, reload, reloadQ, now,
                    statsBuffer, lastAlert, emitted, logTasks, logCollection,
                    broadcast, budget, hist, restOfPipeline >>

\* WAFService.TrackRequest, internal/service/rule_service.go
TrackRequest(buf, domainID, isFlagged, isBlocked) ==
    LET old == Lookup(buf, domainID, [Total |-> 0, Flagged |-> 0, Blocked |-> 0])
    IN  Put(buf, domainID,
            [Total |-> old.Total + 1,
             Flagged |-> old.Flagged + (IF isFlagged THEN 1 ELSE 0),
             Blocked |-> old.Blocked + (IF isBlocked THEN 1 ELSE 0)])

\* the entry logger.LogAttack builds from its arguments; req names the request
\* the call was made for
AttackLog(i, r, action) ==
    [req |-> i, userId |-> r.domainInfo.userId, domainId |-> r.domainInfo.id,
     ip |-> r.ip, reason |-> r.reason, action |-> action, source |-> r.source,
     tags |-> r.tags, score |-> r.score, confidence |-> r.ml.confidence,
     trigger |-> r.trigger]

\* logger.LogAttack: one entry handed to the logging goroutine
LogAttack(log, entry) == Append(log, entry)

\* handler.go 287-325: stats, log, notification, response
ServeHTTPAct(i) ==
    /\ reqs[i].variant = "proxy" /\ reqs[i].pc = "act"
    /\ statsBuffer' = TrackRequest(statsBuffer, reqs[i].domainInfo.id,
                                   reqs[i].verdict \in {Block, Monitor},
                                   reqs[i].verdict = Block)
    /\ CASE reqs[i].verdict = Block ->
              /\ emitted' = LogAttack(emitted, AttackLog(i, reqs[i], "Blocked"))
              /\ logTasks' = logTasks \cup ((Len(emitted) + 1)..Len(emitted'))
              /\ lastAlert' = lastAlert \cup {reqs[i].host}
              /\ reqs' = [reqs EXCEPT ![i].pc = "done", ![i].status = 403]
         [] reqs[i].verdict = Monitor ->
              /\ emitted' = LogAttack(emitted, AttackLog(i, reqs[i], "Flagged"))
              /\ logTasks' = logTasks \cup ((Len(emitted) + 1)..Len(emitted'))
              /\ lastAlert' = lastAlert
              /\ \E s \in OriginStatuses :
                    reqs' = [reqs EXCEPT ![i].pc = "done", ![i].status = s,
                                         ![i].forwarded = TRUE]
         [] OTHER ->
              /\ UNCHANGED << emitted, logTasks, lastAlert >>
              /\ \E s \in OriginStatuses :
                    reqs' = [reqs EXCEPT ![i].pc = "done", ![i].status = s,
                                         ![i].forwarded = TRUE]
    /\ UNCHANGED << domains, dnsRecords, rules, policies, pdnsZones, pdnsRecords,
                    domainMap, domainRules, rulesMutex, reload, reloadQ, clients,
                    now, logCollection, broadcast, budget, hist, restOfPipeline >>

\* the goroutine of LogAttack: InsertOne, whose failure is only logged, then a
\* non-blocking send on the broadcast channel
LogWorker(k) ==
    /\ k \in logTasks
    /\ logTasks' = logTasks \ {k}
    /\ \E inserted \in BOOLEAN :
          logCollection' = IF inserted THEN Append(logCollection, emitted[k])
                           ELSE logCollection
    /\ broadcast' = IF Len(broadcast) < BroadcastCap
                      THEN Append(broadcast, emitted[k]) ELSE broadcast
    /\ UNCHANGED << domains, dnsRecords, rules, policies, pdnsZones, pdnsRecords,
                    domainMap, domainRules, rulesMutex, reload, reloadQ, reqs,
                    clients, now, statsBuffer, lastAlert, emitted, budget, hist,
                    restOfPipeline >>

(***************************************************************************)
(* Request pipeline, second implementation: handler.WAFHandler             *)
(* .HandleRequest calling WAFService.CheckRequest                          *)
(***************************************************************************)
\* WAFService.CheckRequest after the cache lookup: the action it returns and
\* the request's locals
ServiceChecked(r, isRateLimited, ml) ==
    LET eng == DetectorCheckRequest(r, r.rules, isRateLimited)
        callML == ShouldCallML(eng.block, eng.score)
        mlr == IF callML THEN ml ELSE MLZero
        verdict == IF eng.block \/ eng.score >= 10 THEN "Block"
                   ELSE IF mlr.isAnomaly THEN "Block"
                   ELSE IF eng.score >= 5 THEN "Monitor"
                   ELSE "Allow"
        reason == IF eng.block \/ eng.score >= 10 THEN "Rule Violation"
                  ELSE IF mlr.isAnomaly THEN "ML Anomaly"
                  ELSE IF eng.score >= 5 THEN "Suspicious"
                  ELSE "Clean"
    IN  [r EXCEPT !.limited = isRateLimited, !.score = eng.score,
                  !.block = eng.block, !.ml = mlr, !.mlCalled = callML,
                  !.tags = IF mlr.tag # "" /\ (mlr.isAnomaly \/ mlr.confidence > 80)
                             THEN Append(eng.tags, mlr.tag) ELSE eng.tags,
                  !.trigger = IF mlr.trigger # "" THEN mlr.trigger ELSE eng.payload,
                  !.verdict = verdict, !.reason = reason, !.source = "WAF"]

\* HandleRequest as a whole: the limiter, the cache lookup under the read
\* lock, the checks, the log goroutine, the response.  Every action other
\* than "Block" is forwarded to the origin.
HandleRequest(host, ip, payload) ==
    /\ Len(reqs) < MaxReqs
    /\ CanRLock(rulesMutex)
    /\ LET lim == RateLimiterAllow(clients, ip, now)
           r0 == [NewRequest("service", host, ip, payload) EXCEPT
                     !.configured = host \in DOMAIN domainMap,
                     !.domainInfo = Lookup(domainMap, host, NoDomain),
                     !.rules = Lookup(domainRules, host, << >>),
                     !.seen = Len(hist.caches),
                     !.raced = ReloadInProgress]
           i == Len(reqs) + 1
       IN  /\ clients' = lim.clients
           /\ IF ~r0.configured
                THEN /\ \E s \in OriginStatuses :
                          reqs' = Append(reqs,
                             [r0 EXCEPT !.pc = "done", !.verdict = "404",
                                        !.reason = "Domain not configured",
                                        !.limited = ~lim.ok,
                                        !.status = s, !.forwarded = TRUE])
                     /\ UNCHANGED << emitted, logTasks >>
                ELSE \E ml \in CheckML :
                       LET r1 == ServiceChecked(r0, ~lim.ok, ml)
                       IN  /\ r1.ml = ml
                           /\ emitted' = LogAttack(emitted, AttackLog(i, r1, r1.verdict))
                           /\ logTasks' = logTasks \cup ((Len(emitted) + 1)..Len(emitted'))
                           /\ IF r1.verdict = "Block"
                                THEN reqs' = Append(reqs,
                                        [r1 EXCEPT !.pc = "done", !.status = 403])
                                ELSE \E s \in OriginStatuses :
                                        reqs' = Append(reqs,
                                           [r1 EXCEPT !.pc = "done", !.status = s,
                                                      !.forwarded = TRUE])
    /\ UNCHANGED << domains, dnsRecords, rules, policies, pdnsZones, pdnsRecords,
                    domainMap, domainRules, rulesMutex, reload, reloadQ, now,
                    statsBuffer, lastAlert, logCollection, broadcast, budget,
                    hist, restOfPipeline >>

(***************************************************************************)
(* Rule policies: APIHandler.ToggleRule, internal/api/domains.go           *)
(***************************************************************************)
\* database.UpsertRulePolicy: set enabled on the row with this user, rule and
\* domain, or insert it
RECURSIVE UpsertRulePolicy(_, _, _)
UpsertRulePolicy(pols, i, p) ==
    IF i > Len(pols) THEN Append(pols, p)
    ELSE IF /\ pols[i].userId = p.userId /\ pols[i].ruleId = p.ruleId
            /\ pols[i].domainId = p.domainId
      THEN [pols EXCEPT ![i].enabled = p.enabled]
    ELSE UpsertRulePolicy(pols, i + 1, p)

ToggleRuleIds == {"r3"}
ToggleDomainIds == {"d1"}
ToggleUsers == {"t1"}

\* the handler saves the policy and then calls ReloadRules
ToggleRule(userID, id, domainID, enabled) ==
    /\ budget > 0 /\ budget' = budget - 1
    /\ id # ""
    /\ policies' = UpsertRulePolicy(policies, 1,
                      [userId |-> userID, ruleId |-> id, domainId |-> domainID,
                       enabled |-> enabled])
    /\ reloadQ' = reloadQ + 1
    /\ UNCHANGED << domains, dnsRecords, rules, pdnsZones, pdnsRecords,
                    domainMap, domainRules, rulesMutex, reload, reqs, clients,
                    now, statsBuffer, lastAlert, emitted, logTasks,
                    logCollection, broadcast, hist, restOfPipeline >>

(***************************************************************************)
(* ReloadRules, step by step                                               *)
(***************************************************************************)
ReloadIdle == [pc |-> "idle", allRules |-> << >>, policies |-> << >>,
               domains |-> << >>, dnsRecords |-> << >>]

reloadFrame == << domains, dnsRecords, rules, policies, pdnsZones, pdnsRecords,
                  reqs, clients, now, statsBuffer, lastAlert, emitted, logTasks,
                  logCollection, broadcast, budget, restOfPipeline >>

\* handler.go 75: h.rulesMutex.Lock()
ReloadLock ==
    /\ reloadQ > 0 /\ reload.pc = "idle"
    /\ CanLock(rulesMutex)
    /\ rulesMutex' = [rulesMutex EXCEPT !.writer = TRUE]
    /\ reloadQ' = reloadQ - 1
    /\ reload' = [ReloadIdle EXCEPT !.pc = "rules"]
    /\ UNCHANGED << domainMap, domainRules, hist, reloadFrame >>

\* a fetch that fails returns; the deferred Unlock runs, the cache is as it was
ReloadFetch(pc, next, fetched) ==
    /\ reload.pc = pc
    /\ \E ok \in BOOLEAN :
          IF ok THEN /\ reload' = [fetched EXCEPT !.pc = next]
                     /\ UNCHANGED rulesMutex
                ELSE /\ reload' = ReloadIdle
                     /\ rulesMutex' = [rulesMutex EXCEPT !.writer = FALSE]
    /\ UNCHANGED << domainMap, domainRules, reloadQ, hist, reloadFrame >>

\* handler.go 81-85
ReloadGetRules ==
    ReloadFetch("rules", "policies", [reload EXCEPT !.allRules = rules])

\* handler.go 86-90
ReloadGetAllPolicies ==
    ReloadFetch("policies", "domains", [reload EXCEPT !.policies = policies])

\* handler.go 91-95
ReloadGetAllDomains ==
    ReloadFetch("domains", "records", [reload EXCEPT !.domains = domains])

\* handler.go 96-100
ReloadGetAllDNSRecords ==
    ReloadFetch("records", "map", [reload EXCEPT !.dnsRecords = dnsRecords])

\* handler.go 102-120: h.domainMap = newDomainMap
ReloadDomainMap ==
    /\ reload.pc = "map"
    /\ domainMap' = BuildDomainMap(reload.domains, reload.dnsRecords)
    /\ reload' = [reload EXCEPT !.pc = "ruleset"]
    /\ UNCHANGED << domainRules, rulesMutex, reloadQ, hist, reloadFrame >>

\* what a reload run fetched from storage
Fetched(allRules, pols, doms, recs) ==
    [allRules |-> allRules, policies |-> pols, domains |-> doms,
     dnsRecords |-> recs]

\* a committed cache version: the two maps and the data they were built from
CacheVersion(m, r, src) == [m |-> m, r |-> r, src |-> src]

\* a reload that adds the effective rules to the lists already in the cache
ReloadDomainRulesAppending ==
    /\ reload.pc = "ruleset"
    /\ domainRules' =
          LET built == BuildDomainRules(reload.allRules, reload.policies,
                                        reload.domains, reload.dnsRecords)
          IN  [h \in DOMAIN built |-> Lookup(domainRules, h, << >>) \o built[h]]
    /\ rulesMutex' = [rulesMutex EXCEPT !.writer = FALSE]
    /\ reload' = ReloadIdle
    /\ hist' = [hist EXCEPT
                  !.caches = Append(@, CacheVersion(domainMap, domainRules',
                                Fetched(reload.allRules, reload.policies,
                                        reload.domains, reload.dnsRecords)))]
    /\ UNCHANGED << domainMap, reloadQ, reloadFrame >>

\* handler.go 122-192: h.domainRules = newDomainRules, then the deferred Unlock
ReloadDomainRules ==
    /\ reload.pc = "ruleset"
    /\ domainRules' = BuildDomainRules(reload.allRules, reload.policies,
                                       reload.domains, reload.dnsRecords)
    /\ rulesMutex' = [rulesMutex EXCEPT !.writer = FALSE]
    /\ reload' = ReloadIdle
    /\ hist' = [hist EXCEPT
                  !.caches = Append(@, CacheVersion(domainMap, domainRules',
                                Fetched(reload.allRules, reload.policies,
                                        reload.domains, reload.dnsRecords)))]
    /\ UNCHANGED << domainMap, reloadQ, reloadFrame >>

ReloadStep ==
    \/ ReloadLock
    \/ ReloadGetRules
    \/ ReloadGetAllPolicies
    \/ ReloadGetAllDomains
    \/ ReloadGetAllDNSRecords
    \/ ReloadDomainMap
    \/ ReloadDomainRules

(***************************************************************************)
(* WAFService.ReloadRules of the second implementation                     *)
(***************************************************************************)
\* the policy override, else the global one, else the rule's own flag
ServiceIsEnabled(rule, domainID, pm) ==
    IF << rule.id, domainID >> \in DOMAIN pm THEN pm[<< rule.id, domainID >>]
    ELSE IF << rule.id, "" >> \in DOMAIN pm THEN pm[<< rule.id, "" >>]
    ELSE rule.enabled

\* the global rules and the owner's private rules that are enabled, in the
\* order of allRules
ServiceEffective(allRules, pm, d) ==
    SelectSeq(allRules,
              LAMBDA rule : /\ (rule.ownerId = "" \/ rule.ownerId = d.userId)
                            /\ ServiceIsEnabled(rule, d.id, pm))

ServiceBuildDomainRules(allRules, pols, m) ==
    [h \in DOMAIN m |-> ServiceEffective(allRules, PolicyMap(pols, 1, << >>), m[h])]

\* the fetch of a run that fails, if any
FetchFailures == {"none", "domains", "records", "rules", "policies"}

\* one run under the write lock: the four fetches, whose errors are dropped
\* (a failed fetch yields an empty list), then both maps are replaced
ServiceReloadRules ==
    /\ reloadQ > 0 /\ reloadQ' = reloadQ - 1
    /\ CanLock(rulesMutex)
    /\ \E failing \in FetchFailures :
          LET doms == IF failing = "domains" THEN << >> ELSE domains
              recs == IF failing = "records" THEN << >> ELSE dnsRecords
              allRules == IF failing = "rules" THEN << >> ELSE rules
              pols == IF failing = "policies" THEN << >> ELSE policies
              newDomainMap == BuildDomainMap(doms, recs)
          IN  /\ domainMap' = newDomainMap
              /\ domainRules' = ServiceBuildDomainRules(allRules, pols, newDomainMap)
              /\ hist' = [hist EXCEPT
                    !.caches = Append(@, CacheVersion(domainMap', domainRules',
                                                      Fetched(allRules, pols, doms, recs))),
                    !.abort = [failed |-> failing # "none",
                               m |-> domainMap, r |-> domainRules]]
    /\ UNCHANGED << rulesMutex, reload, reloadFrame >>

(***************************************************************************)
(* Record-level DNS controller: internal/api/dns.go, internal/database     *)
(***************************************************************************)
\* primitive.NewObjectID().Hex(): the n-th generated id
ObjectIDs == << "o1", "o2", "o3", "o4", "o5", "o6", "o7", "o8", "o9", "o10",
                "o11", "o12" >>

\* WAF_PUBLIC_IP, with the default of the code
WafIP == "139.59.76.127"

IPv4Contents == {"1.1.1.1", "2.2.2.2", WafIP}
HostContents == {"origin.example.net"}

\* net.ParseIP(c) != nil && To4() != nil; domainRegex.MatchString(c)
IsIPv4(c) == c \in IPv4Contents
IsDomainName(c) == c \in HostContents

\* api/dns.go 63-115: TTL and content validation; the TTL after defaulting
DefaultedTTL(ttl) == IF ttl = 0 THEN 300 ELSE ttl

ValidRecordRequest(req) ==
    /\ req.domainId # "" /\ req.type # "" /\ req.content # ""
    /\ DefaultedTTL(req.ttl) >= 60 /\ DefaultedTTL(req.ttl) <= 86400
    /\ CASE req.type = "A" -> IsIPv4(req.content)
         [] req.type = "CNAME" -> ~IsIPv4(req.content) /\ IsDomainName(req.content)
         [] req.type \in {"MX", "NS"} -> IsDomainName(req.content)
         [] OTHER -> TRUE

\* database.extractZone: the last two labels
extractZone(name) ==
    IF Len(name) >= 2 THEN SubSeq(name, Len(name) - 1, Len(name)) ELSE name

\* api/dns.go 140-149
RecordName(req, domain) ==
    IF req.name # "" /\ req.name # "@" THEN << req.name >> \o domain.name
    ELSE domain.name

\* the positions of a collection's rows
RowIndexes(s) == 1..Len(s)

\* database.GetDomainByID: the row with this _id, if any
DomainByID(doms, id) == { i \in RowIndexes(doms) : doms[i].id = id }

\* database.CheckDNSRecordExists
CheckDNSRecordExists(recs, domainID, name, rType) ==
    \E i \in RowIndexes(recs) :
       recs[i].domainId = domainID /\ recs[i].name = name /\ recs[i].type = rType

\* database.CheckDuplicateDNSRecord
CheckDuplicateDNSRecord(recs, domainID, name, rType, content) ==
    \E i \in RowIndexes(recs) :
       /\ recs[i].domainId = domainID /\ recs[i].name = name
       /\ recs[i].type = rType /\ recs[i].content = content

\* api/dns.go 183-224: CNAME exclusivity and duplicates
RecordConflict(recs, req, recordName) ==
    IF req.type = "CNAME"
      THEN \E t \in {"A", "AAAA", "CNAME", "MX", "TXT", "NS"} :
              CheckDNSRecordExists(recs, req.domainId, recordName, t)
      ELSE \/ CheckDNSRecordExists(recs, req.domainId, recordName, "CNAME")
           \/ CheckDuplicateDNSRecord(recs, req.domainId, recordName, req.type,
                                      req.content)

NonProxiable == {"TXT", "MX", "NS", "SOA"}

\* a publication that masks whenever the request asks for it
PublishedRowMasking(name, recordType, content, proxied, wafIP) ==
    IF proxied
      THEN [zone |-> extractZone(name), name |-> name, type |-> "A",
            content |-> wafIP, ttl |-> 300]
      ELSE [zone |-> extractZone(name), name |-> name, type |-> recordType,
            content |-> content, ttl |-> 300]

\* database.AddPowerDNSRecord 67-92: the row published for a record
PublishedRow(name, recordType, content, proxied, wafIP) ==
    IF proxied /\ recordType \notin NonProxiable
      THEN [zone |-> extractZone(name), name |-> name, type |-> "A",
            content |-> wafIP, ttl |-> 300]
      ELSE [zone |-> extractZone(name), name |-> name, type |-> recordType,
            content |-> content, ttl |-> 300]

\* database.DeletePowerDNSRecordByContent: DELETE FROM records WHERE name = ?
\* AND type = ? AND content = ?, every matching row
RECURSIVE DeletePowerDNSRecordByContent(_, _, _, _)
DeletePowerDNSRecordByContent(rows, name, recordType, content) ==
    IF rows = << >> THEN << >>
    ELSE (IF /\ Head(rows).name = name /\ Head(rows).type = recordType
             /\ Head(rows).content = content
            THEN << >> ELSE << Head(rows) >>)
           \o DeletePowerDNSRecordByContent(Tail(rows), name, recordType, content)

\* database.DeleteDNSRecord: DeleteOne by _id
RECURSIVE DeleteDNSRecord(_, _)
DeleteDNSRecord(recs, recordID) ==
    IF recs = << >> THEN << >>
    ELSE IF Head(recs).id = recordID THEN Tail(recs)
    ELSE << Head(recs) >> \o DeleteDNSRecord(Tail(recs), recordID)

\* the row GetDomainByID / GetDNSRecordByID decodes
RowByID(coll, id) == coll[CHOOSE i \in RowIndexes(coll) : coll[i].id = id]

HasID(coll, id) == \E i \in RowIndexes(coll) : coll[i].id = id

\* the two record stores before a call, none yet
NoStores == [dnsRecords |-> << >>, pdnsRecords |-> << >>]

restOfDns == << dcall, rules, policies, domainMap, domainRules, rulesMutex,
                reload, reloadQ, reqs, clients, now, statsBuffer, lastAlert,
                emitted, logTasks, logCollection, broadcast, calls, tasks, rdap >>

\* api/dns.go addRecord, the accepted path: validation, ownership, status,
\* conflicts, then the intent row and the resolver row.  A rejected call
\* changes nothing.
addRecord(userID, req) ==
    /\ budget > 0 /\ budget' = budget - 1
    /\ ValidRecordRequest(req)
    /\ HasID(domains, req.domainId)
    /\ LET domain == RowByID(domains, req.domainId)
           recordName == RecordName(req, domain)
           newRecord == [id |-> ObjectIDs[nextId], domainId |-> req.domainId,
                         name |-> recordName, type |-> req.type,
                         content |-> req.content, ttl |-> DefaultedTTL(req.ttl),
                         proxied |-> req.proxied, originSsl |-> FALSE]
           zoneFound == extractZone(recordName) \in pdnsZones
       IN  /\ domain.userId = userID
           /\ domain.status = "active"
           /\ ~(req.type = "CNAME" /\ recordName = domain.name)
           /\ ~(req.type = "CNAME" /\ << req.content >> = recordName)
           /\ ~RecordConflict(dnsRecords, req, recordName)
           /\ dnsRecords' = Append(dnsRecords, newRecord)
           /\ nextId' = nextId + 1
           /\ pdnsRecords' =
                 IF zoneFound
                   THEN Append(pdnsRecords,
                           PublishedRow(recordName, req.type, req.content,
                                        req.proxied, WafIP))
                   ELSE pdnsRecords
           /\ hist' = [hist EXCEPT
                 !.snap = [dnsRecords |-> dnsRecords, pdnsRecords |-> pdnsRecords],
                 !.added = IF zoneFound THEN newRecord.id ELSE "",
                 !.roundTrip = FALSE,
                 !.by = "", !.prev = NoStores]
    /\ UNCHANGED << domains, pdnsZones, restOfDns >>

\* api/dns.go deleteRecord: ownership of domain_id, the record by record_id,
\* the resolver rows by name, type and content, then the intent row
deleteRecord(userID, domainID, recordID) ==
    /\ budget > 0 /\ budget' = budget - 1
    /\ domainID # "" /\ recordID # ""
    /\ HasID(domains, domainID)
    /\ RowByID(domains, domainID).userId = userID
    /\ HasID(dnsRecords, recordID)
    /\ LET record == RowByID(dnsRecords, recordID)
           masked == record.proxied /\ record.type \notin NonProxiable
           sqlType == IF masked THEN "A" ELSE record.type
           sqlContent == IF masked THEN WafIP ELSE record.content
       IN  /\ pdnsRecords' = DeletePowerDNSRecordByContent(pdnsRecords,
                                record.name, sqlType, sqlContent)
           /\ dnsRecords' = DeleteDNSRecord(dnsRecords, recordID)
    /\ hist' = [hist EXCEPT !.roundTrip = (hist.added # "" /\ hist.added = recordID),
                            !.added = "",
                            !.by = userID,
                            !.prev = [dnsRecords |-> dnsRecords,
                                      pdnsRecords |-> pdnsRecords]]
    /\ UNCHANGED << domains, pdnsZones, nextId, restOfDns >>

\* database.UpdateDNSRecordOriginSSL: UpdateOne by _id
UpdateDNSRecordOriginSSL(recs, recordID, sslStatus) ==
    [i \in RowIndexes(recs) |->
        IF recs[i].id = recordID THEN [recs[i] EXCEPT !.originSsl = sslStatus]
        ELSE recs[i]]

\* database.UpdateDNSRecordProxy: UpdateOne by _id
UpdateDNSRecordProxy(recs, recordID, proxied) ==
    [i \in RowIndexes(recs) |->
        IF recs[i].id = recordID THEN [recs[i] EXCEPT !.proxied = proxied]
        ELSE recs[i]]

\* what a PUT /api/dns/records body decodes to
UpdateRequests ==
    [action : {"toggle_origin_ssl", ""}, proxied : BOOLEAN, originSsl : BOOLEAN]

\* api/dns.go updateRecord: ownership of domain_id, then either the origin-SSL
\* flag of the record with record_id, or the proxy toggle: the old resolver
\* rows deleted, the flag stored, the new resolver row added
updateRecord(userID, domainID, recordID, req) ==
    /\ budget > 0 /\ budget' = budget - 1
    /\ domainID # "" /\ recordID # ""
    /\ HasID(domains, domainID)
    /\ RowByID(domains, domainID).userId = userID
    /\ IF req.action = "toggle_origin_ssl"
         THEN /\ dnsRecords' = UpdateDNSRecordOriginSSL(dnsRecords, recordID,
                                                        req.originSsl)
              /\ pdnsRecords' = pdnsRecords
         ELSE /\ HasID(dnsRecords, recordID)
              /\ LET oldRecord == RowByID(dnsRecords, recordID)
                     masked == oldRecord.proxied /\ oldRecord.type \notin NonProxiable
                     typeToDelete == IF masked THEN "A" ELSE oldRecord.type
                     contentToDelete == IF masked THEN WafIP ELSE oldRecord.content
                     deleted == DeletePowerDNSRecordByContent(pdnsRecords,
                                   oldRecord.name, typeToDelete, contentToDelete)
                 IN  /\ dnsRecords' = UpdateDNSRecordProxy(dnsRecords, recordID,
                                                           req.proxied)
                     /\ pdnsRecords' =
                           IF extractZone(oldRecord.name) \in pdnsZones
                             THEN Append(deleted,
                                     PublishedRow(oldRecord.name, oldRecord.type,
                                                  oldRecord.content, req.proxied,
                                                  WafIP))
                             ELSE deleted
    /\ hist' = [hist EXCEPT !.roundTrip = FALSE, !.added = "",
                            !.by = userID,
                            !.prev = [dnsRecords |-> dnsRecords,
                                      pdnsRecords |-> pdnsRecords]]
    /\ UNCHANGED << domains, pdnsZones, nextId, restOfDns >>

(***************************************************************************)
(* Specification of the pipeline and the cache                             *)
(***************************************************************************)
\* number of admin operations (rule toggles, record changes) in a run
MaxAdminOps == 2

InitRules ==
    << [id |-> "r1", ownerId |-> "", enabled |-> TRUE, scoreAdd |-> 20,
        hardBlock |-> TRUE, tags |-> << "SQLi" >>,
        conditions |-> << [field |-> "request.combined", operator |-> "regex",
                           matches |-> {"sqli"}, value |-> FALSE] >>],
       [id |-> "r2", ownerId |-> "", enabled |-> TRUE, scoreAdd |-> 10,
        hardBlock |-> FALSE, tags |-> << "RateLimit" >>,
        conditions |-> << [field |-> "meta.rate_limited", operator |-> "equals_bool",
                           matches |-> {}, value |-> TRUE] >>],
       [id |-> "r3", ownerId |-> "t1", enabled |-> TRUE, scoreAdd |-> 10,
        hardBlock |-> FALSE, tags |-> << "Probe" >>,
        conditions |-> << [field |-> "request.combined", operator |-> "regex",
                           matches |-> {"probe"}, value |-> FALSE] >>] >>

Nameservers == << "ns-a", "ns-b" >>

DomainRow(id, userID, name, status) ==
    [id |-> id, userId |-> userID, name |-> name, status |-> status,
     proxyEnabled |-> FALSE, nameservers |-> Nameservers]

\* database.CreateDNSZone 192-223: the SOA row and one NS row per nameserver
ZoneRows(domainName, nameservers) ==
    << [zone |-> domainName, name |-> domainName, type |-> "SOA",
        content |-> nameservers[1], ttl |-> 3600] >>
      \o [k \in 1..Len(nameservers) |->
            [zone |-> domainName, name |-> domainName, type |-> "NS",
             content |-> nameservers[k], ttl |-> 3600]]

NoHistory ==
    [caches |-> << >>, snap |-> [dnsRecords |-> << >>, pdnsRecords |-> << >>],
     added |-> "", roundTrip |-> FALSE,
     reloaded |-> << >>, swapped |-> FALSE, phase |-> 0, toggled |-> "",
     abort |-> [failed |-> FALSE, m |-> << >>, r |-> << >>],
     verify |-> [kind |-> "", ns |-> {}, id |-> "", assigned |-> << >>,
                 verified |-> FALSE, response |-> 0, before |-> << >>],
     by |-> "", prev |-> NoStores]

\* t1 owns the active shop.com, t2 the pending blog.com; both zones are
\* provisioned; the cache is what ReloadRules built at construction
Init ==
    /\ dcall = NoCall
    /\ domains = << DomainRow("d1", "t1", ShopCom, "active"),
                    DomainRow("d2", "t2", BlogCom, "pending_verification") >>
    /\ dnsRecords = << >>
    /\ rules = InitRules
    /\ policies = << >>
    /\ pdnsZones = {ShopCom, BlogCom}
    /\ pdnsRecords = ZoneRows(ShopCom, Nameservers) \o ZoneRows(BlogCom, Nameservers)
    /\ domainMap = BuildDomainMap(domains, dnsRecords)
    /\ domainRules = BuildDomainRules(rules, policies, domains, dnsRecords)
    /\ rulesMutex = [writer |-> FALSE, readers |-> 0]
    /\ reload = ReloadIdle /\ reloadQ = 0
    /\ reqs = << >> /\ clients = << >> /\ now = 0
    /\ statsBuffer = << >> /\ lastAlert = {}
    /\ emitted = << >> /\ logTasks = {} /\ logCollection = << >> /\ broadcast = << >>
    /\ calls = << >> /\ tasks = << >> /\ nextId = 1 /\ budget = MaxAdminOps
    /\ rdap = << >>
    /\ hist = [NoHistory EXCEPT !.caches =
                  << CacheVersion(domainMap, domainRules,
                                  Fetched(rules, policies, domains, dnsRecords)) >>]

\* the record the owner of shop.com adds while requests are served
WwwRecordRequest ==
    [domainId |-> "d1", name |-> "www", type |-> "A", content |-> "1.1.1.1",
     ttl |-> 0, proxied |-> TRUE]

Next ==
    \/ \E host \in RequestHosts, ip \in ClientIPs, payload \in Payloads :
          ServeHTTPLookup(host, ip, payload)
    \/ \E i \in DOMAIN reqs : ServeHTTPRules(i)
    \/ \E i \in DOMAIN reqs : ServeHTTPInspect(i)
    \/ \E i \in DOMAIN reqs : ServeHTTPAct(i)
    \/ \E k \in logTasks : LogWorker(k)
    \/ \E u \in ToggleUsers, id \in ToggleRuleIds, d \in ToggleDomainIds, e \in BOOLEAN :
          ToggleRule(u, id, d, e)
    \/ addRecord("t1", WwwRecordRequest)
    \/ ReloadStep

Spec == Init /\ [][Next]_vars

\* the second implementation of the pipeline, with the reload of its service
NextService ==
    \/ \E host \in RequestHosts, ip \in ClientIPs, payload \in Payloads :
          HandleRequest(host, ip, payload)
    \/ \E k \in logTasks : LogWorker(k)
    \/ \E u \in ToggleUsers, id \in ToggleRuleIds, d \in ToggleDomainIds, e \in BOOLEAN :
          ToggleRule(u, id, d, e)
    \/ addRecord("t1", WwwRecordRequest)
    \/ ServiceReloadRules

SpecService == Init /\ [][NextService]_vars

\* the log events emitted for request i
EventsOf(i) == { k \in DOMAIN emitted : emitted[k].req = i }

\* C1: every request on a configured host that the pipeline's decision
\* deems Block is answered 403 and has exactly one log event, whose action is
\* "Blocked".
C1_BlockLoggedOnce ==
    \A i \in DOMAIN reqs :
       (reqs[i].pc = "done" /\ reqs[i].configured
           /\ reqs[i].verdict \in {Block, "Block"}) =>
          /\ reqs[i].status = 403
          /\ Cardinality(EventsOf(i)) = 1
          /\ \A k \in EventsOf(i) : emitted[k].action = "Blocked"

\* the same statement for the requests ServeHTTP served: it holds there
ServeHTTPBlockLoggedOnce ==
    \A i \in DOMAIN reqs :
       (reqs[i].variant = "proxy" /\ reqs[i].pc = "done" /\ reqs[i].verdict = Block) =>
          /\ reqs[i].status = 403
          /\ Cardinality(EventsOf(i)) = 1
          /\ \A k \in EventsOf(i) : emitted[k].action = "Blocked"

\* C2: a request whose host was not in the cache at lookup time is answered
\* 404 and no log event is emitted for it.
C2_UnconfiguredIs404 ==
    \A i \in DOMAIN reqs :
       (reqs[i].pc = "done" /\ ~reqs[i].configured) =>
          /\ reqs[i].status = 404
          /\ EventsOf(i) = {}

\* the pair a lookup of host h gives in cache version c
PairIn(c, h) ==
    [configured |-> h \in DOMAIN c.m, domainInfo |-> Lookup(c.m, h, NoDomain),
     rules |-> Lookup(c.r, h, << >>)]

PairSeen(r) ==
    [configured |-> r.configured, domainInfo |-> r.domainInfo, rules |-> r.rules]

\* C10: the (tenant metadata, rule list) pair a request read is the pair of
\* one committed cache version: the version current when its lookup began
\* or the one the next reload committed; never domainMap of one version with
\* domainRules of another.
C10_LookupAtomic ==
    \A i \in DOMAIN reqs :
       reqs[i].pc # "rules" =>
          \/ PairSeen(reqs[i]) = PairIn(hist.caches[reqs[i].seen], reqs[i].host)
          \/ /\ reqs[i].seen < Len(hist.caches)
             /\ PairSeen(reqs[i]) = PairIn(hist.caches[reqs[i].seen + 1], reqs[i].host)

\* a ServeHTTP lookup of www.shop.com ran while a ReloadRules call was waiting
\* for the lock, and that reload then committed a version in which the host's
\* pair is another one
C10_Witness ==
    \E i \in DOMAIN reqs :
       /\ reqs[i].variant = "proxy" /\ reqs[i].pc # "rules" /\ reqs[i].raced
       /\ reqs[i].host = WwwShopCom
       /\ reqs[i].seen < Len(hist.caches)
       /\ PairIn(hist.caches[reqs[i].seen], WwwShopCom)
             # PairIn(hist.caches[reqs[i].seen + 1], WwwShopCom)

(***************************************************************************)
(* Specification of the record-level DNS controller                        *)
(***************************************************************************)
MaxDnsOps == 3

RecordLabels == {"", "www"}
RecordTypes == {"A", "CNAME", "TXT"}
RecordContents == {"1.1.1.1", "2.2.2.2", "origin.example.net"}
RecordTTLs == {0, 30}

DNSRecordRequests ==
    [domainId : {"d1", "d2"}, name : RecordLabels, type : RecordTypes,
     content : RecordContents, ttl : RecordTTLs, proxied : BOOLEAN]

\* two tenants, each with an active domain whose zone is provisioned
InitDns ==
    /\ dcall = NoCall
    /\ domains = << DomainRow("d1", "t1", ShopCom, "active"),
                    DomainRow("d2", "t2", BlogCom, "active") >>
    /\ dnsRecords = << >>
    /\ rules = << >> /\ policies = << >>
    /\ pdnsZones = {ShopCom, BlogCom}
    /\ pdnsRecords = ZoneRows(ShopCom, Nameservers) \o ZoneRows(BlogCom, Nameservers)
    /\ domainMap = BuildDomainMap(domains, dnsRecords)
    /\ domainRules = BuildDomainRules(rules, policies, domains, dnsRecords)
    /\ rulesMutex = [writer |-> FALSE, readers |-> 0]
    /\ reload = ReloadIdle /\ reloadQ = 0
    /\ reqs = << >> /\ clients = << >> /\ now = 0
    /\ statsBuffer = << >> /\ lastAlert = {}
    /\ emitted = << >> /\ logTasks = {} /\ logCollection = << >> /\ broadcast = << >>
    /\ calls = << >> /\ tasks = << >> /\ nextId = 1 /\ budget = MaxDnsOps
    /\ rdap = << >>
    /\ hist = NoHistory

NextDns ==
    \/ \E u \in Tenants, req \in DNSRecordRequests : addRecord(u, req)
    \/ \E u \in Tenants, d \in {"d1", "d2"}, k \in DOMAIN dnsRecords :
          deleteRecord(u, d, dnsRecords[k].id)
    \/ \E u \in Tenants, d \in {"d1", "d2"}, k \in DOMAIN dnsRecords,
          req \in UpdateRequests :
          updateRecord(u, d, dnsRecords[k].id, req)

SpecDns == InitDns /\ [][NextDns]_vars

\* C9: when addRecord accepted R and deleteRecord(R.id) is the next
\* operation, the intent store and the resolver store are what they were
\* before R was added, the other rows at R's name included.
C9_AddDeleteRestores ==
    hist.roundTrip =>
       /\ dnsRecords = hist.snap.dnsRecords
       /\ pdnsRecords = hist.snap.pdnsRecords

(***************************************************************************)
(* Domain lifecycle and domain-level proxy mode:                           *)
(* internal/handler/domain.go with the Mongo and SQL repositories          *)
(***************************************************************************)
\* handler/domain.go getRootDomain: the last two labels
getRootDomain(name) ==
    IF Len(name) < 2 THEN name ELSE SubSeq(name, Len(name) - 1, Len(name))

\* DomainRepository.GetByName: an active row with this name exists
GetByName(doms, name) ==
    \E i \in RowIndexes(doms) : doms[i].name = name /\ doms[i].status = "active"

\* DomainRepository.RevokeOldOwnership: DeleteMany {name, _id != newOwnerID}
RECURSIVE RevokeOldOwnership(_, _, _)
RevokeOldOwnership(doms, name, newOwnerID) ==
    IF doms = << >> THEN << >>
    ELSE (IF Head(doms).name = name /\ Head(doms).id # newOwnerID
            THEN << >> ELSE << Head(doms) >>)
           \o RevokeOldOwnership(Tail(doms), name, newOwnerID)

\* DomainRepository.UpdateStatus: UpdateOne by _id, nothing when no row matches
UpdateStatus(doms, id, status) ==
    [i \in RowIndexes(doms) |->
        IF doms[i].id = id THEN [doms[i] EXCEPT !.status = status] ELSE doms[i]]

\* DomainRepository.UpdateProxyMode: sets proxy_enabled on the row with this id
UpdateProxyMode(doms, id, enabled) ==
    [i \in RowIndexes(doms) |->
        IF doms[i].id = id THEN [doms[i] EXCEPT !.proxyEnabled = enabled]
        ELSE doms[i]]

\* DomainRepository.GetRecords: the intent records of a domain, in order
RECURSIVE GetRecords(_, _)
GetRecords(recs, domainID) ==
    IF recs = << >> THEN << >>
    ELSE (IF Head(recs).domainId = domainID THEN << Head(recs) >> ELSE << >>)
           \o GetRecords(Tail(recs), domainID)

\* sql.DNSRepository.CreateRecord: the row inserted under the zone
SqlRow(zoneName, record) ==
    [zone |-> zoneName, name |-> record.name, type |-> record.type,
     content |-> record.content, ttl |-> record.ttl]

CreateRecord(rows, zoneName, record) == Append(rows, SqlRow(zoneName, record))

\* sql.DNSRepository.DeleteRecordsByType: every row of the zone with this type
RECURSIVE DeleteRecordsByType(_, _, _)
DeleteRecordsByType(rows, zoneName, rType) ==
    IF rows = << >> THEN << >>
    ELSE (IF Head(rows).zone = zoneName /\ Head(rows).type = rType
            THEN << >> ELSE << Head(rows) >>)
           \o DeleteRecordsByType(Tail(rows), zoneName, rType)

\* handler/domain.go 355-359: push the user's A and CNAME records
RECURSIVE PushUserRecords(_, _, _)
PushUserRecords(rows, zoneName, userRecords) ==
    IF userRecords = << >> THEN rows
    ELSE PushUserRecords(
            IF Head(userRecords).type \in {"A", "CNAME"}
              THEN CreateRecord(rows, zoneName, Head(userRecords)) ELSE rows,
            zoneName, Tail(userRecords))

WafARecord(name, ttl) ==
    [name |-> name, type |-> "A", content |-> WafIP, ttl |-> ttl]

\* a swap that clears the whole zone before it inserts
ProxySwapWholeZone(rows, zoneName, enabled, userRecords) ==
    IF enabled
      THEN CreateRecord(SelectSeq(rows, LAMBDA r : r.zone # zoneName),
                        zoneName, WafARecord(zoneName, 300))
      ELSE PushUserRecords(SelectSeq(rows, LAMBDA r : r.zone # zoneName),
                           zoneName, userRecords)

\* handler/domain.go 330-362, the goroutine of ToggleProxyMode
ProxySwap(rows, zoneName, enabled, userRecords) ==
    IF enabled
      THEN CreateRecord(
              DeleteRecordsByType(DeleteRecordsByType(rows, zoneName, "A"),
                                  zoneName, "CNAME"),
              zoneName, WafARecord(zoneName, 300))
      ELSE PushUserRecords(DeleteRecordsByType(rows, zoneName, "A"),
                           zoneName, userRecords)

\* s without its k-th element
RemoveAt(s, k) == SubSeq(s, 1, k - 1) \o SubSeq(s, k + 1, Len(s))

NoRecord == [name |-> << >>, type |-> "", content |-> "", ttl |-> 0]

Task(kind, zoneName, domainID, enabled, record) ==
    [kind |-> kind, zone |-> zoneName, domainId |-> domainID,
     enabled |-> enabled, record |-> record]

\* the pool the two assigned nameservers are drawn from
NSPool == {"ns-a", "ns-b"}

\* what the RDAP lookup of the registrar can end in: a transport error, a 404,
\* a body that is not an RDAP document, or a document listing nameservers
RdapOutcomes ==
    { [kind |-> k, ns |-> {}] : k \in {"network", "notfound", "unparsable"} }
    \cup { [kind |-> "ok", ns |-> l] :
              l \in { {"ns-a", "ns-b"}, {"NS-A", "ns-b"}, {"ns-a"}, {} } }

\* handler/domain.go checkRegistrarRDAP: an error for a failed request and for
\* a 404; the result of json.Unmarshal is not looked at, so a body that does
\* not parse gives an empty list and no error
checkRegistrarRDAP(o) ==
    CASE o.kind = "network" -> [err |-> TRUE, ns |-> {}]
      [] o.kind = "notfound" -> [err |-> TRUE, ns |-> {}]
      [] o.kind = "unparsable" -> [err |-> FALSE, ns |-> {}]
      [] OTHER -> [err |-> FALSE, ns |-> o.ns]

\* strings.EqualFold on the nameserver names of the model
Fold(name) ==
    CASE name = "NS-A" -> "ns-a"
      [] name = "NS-B" -> "ns-b"
      [] OTHER -> name

EqualFold(a, b) == Fold(a) = Fold(b)

\* a verification that is content with one assigned nameserver being listed
VerifiedAny(assigned, foundNS) ==
    \E k \in 1..Len(assigned) : \E liveNS \in foundNS : EqualFold(liveNS, assigned[k])

\* handler/domain.go 175-185: matchedCount == len(Nameservers), and not empty
Verified(assigned, foundNS) ==
    /\ Cardinality({k \in 1..Len(assigned) :
                      \E liveNS \in foundNS : EqualFold(liveNS, assigned[k])})
          = Len(assigned)
    /\ Len(assigned) > 0

restOfDomain == << dcall, rules, policies, rulesMutex, reload, reloadQ, reqs,
                   clients, now, statsBuffer, lastAlert, emitted, logTasks,
                   logCollection, broadcast, rdap >>

\* bookkeeping for the on/off round trip: another operation in between ends it
Interrupted(h) == [h EXCEPT !.phase = IF @ \in {1, 2} THEN 3 ELSE @]

\* AddDomain for a request that carries no id (the repository generates one):
\* the root-zone check, two distinct nameservers, pending with proxy mode on,
\* the zone provisioned in the background
AddDomain(userID, name, n1, n2) ==
    /\ budget > 0 /\ budget' = budget - 1
    /\ n1 # n2
    /\ ~(getRootDomain(name) # name /\ GetByName(domains, getRootDomain(name)))
    /\ domains' = Append(domains,
          [id |-> ObjectIDs[nextId], userId |-> userID, name |-> name,
           status |-> "pending_verification", proxyEnabled |-> TRUE,
           nameservers |-> << n1, n2 >>])
    /\ nextId' = nextId + 1
    /\ tasks' = Append(tasks, Task("provision", name, ObjectIDs[nextId], FALSE,
                                   [NoRecord EXCEPT !.content = << n1, n2 >>]))
    /\ hist' = Interrupted(hist)
    /\ UNCHANGED << dnsRecords, pdnsZones, pdnsRecords, domainMap, domainRules,
                    calls, restOfDomain >>

\* the goroutine of AddDomain: SOA and the two NS rows
RunProvision(k) ==
    /\ tasks[k].kind = "provision"
    /\ pdnsZones' = pdnsZones \cup {tasks[k].zone}
    /\ pdnsRecords' =
          CreateRecord(
            CreateRecord(
              CreateRecord(pdnsRecords, tasks[k].zone,
                 [name |-> tasks[k].zone, type |-> "SOA",
                  content |-> "ns1.minishield.tech", ttl |-> 3600]),
              tasks[k].zone,
              [name |-> tasks[k].zone, type |-> "NS",
               content |-> tasks[k].record.content[1], ttl |-> 3600]),
            tasks[k].zone,
            [name |-> tasks[k].zone, type |-> "NS",
             content |-> tasks[k].record.content[2], ttl |-> 3600])
    /\ tasks' = RemoveAt(tasks, k)
    /\ UNCHANGED << domains, dnsRecords, domainMap, domainRules, calls, nextId,
                    budget, hist, restOfDomain >>

\* VerifyDomain 154-185: the row by id, the owner check, the RDAP lookup; 503
\* on a lookup error, 409 when not verified; a verified call goes on and
\* answers 200 at its end
VerifyDomain(userID, domainID, answer) ==
    /\ budget > 0 /\ budget' = budget - 1
    /\ domainID # "" /\ HasID(domains, domainID)
    /\ RowByID(domains, domainID).userId = userID
    /\ LET domain == RowByID(domains, domainID)
           found == checkRegistrarRDAP(answer)
           verified == ~found.err /\ Verified(domain.nameservers, found.ns)
       IN  /\ calls' = IF verified
                         THEN Append(calls, [pc |-> "revoke", domain |-> domain])
                         ELSE calls
           /\ hist' = [Interrupted(hist) EXCEPT
                 !.verify = [kind |-> answer.kind, ns |-> answer.ns,
                             id |-> domainID, assigned |-> domain.nameservers,
                             verified |-> verified,
                             response |-> IF found.err THEN 503
                                          ELSE IF verified THEN 200 ELSE 409,
                             before |-> domains]]
    /\ UNCHANGED << domains, dnsRecords, pdnsZones, pdnsRecords, domainMap,
                    domainRules, tasks, nextId, restOfDomain >>

\* VerifyDomain 190: RevokeOldOwnership, whose error is not looked at
VerifyRevoke(c) ==
    /\ calls[c].pc = "revoke"
    /\ \E failed \in BOOLEAN :
          domains' = IF failed THEN domains
                     ELSE RevokeOldOwnership(domains, calls[c].domain.name,
                                             calls[c].domain.id)
    /\ calls' = [calls EXCEPT ![c].pc = "activate"]
    /\ UNCHANGED << dnsRecords, pdnsZones, pdnsRecords, domainMap, domainRules,
                    tasks, nextId, budget, hist, restOfDomain >>

\* VerifyDomain 196
VerifyActivate(c) ==
    /\ calls[c].pc = "activate"
    /\ domains' = UpdateStatus(domains, calls[c].domain.id, "active")
    /\ calls' = [calls EXCEPT ![c].pc = "proxy"]
    /\ UNCHANGED << dnsRecords, pdnsZones, pdnsRecords, domainMap, domainRules,
                    tasks, nextId, budget, hist, restOfDomain >>

\* VerifyDomain 197-217: proxy mode on, the WAF A record in the background
VerifyProxyOn(c) ==
    /\ calls[c].pc = "proxy"
    /\ domains' = UpdateProxyMode(domains, calls[c].domain.id, TRUE)
    /\ tasks' = Append(tasks, Task("wafA", calls[c].domain.name,
                                   calls[c].domain.id, TRUE,
                                   WafARecord(calls[c].domain.name, 3600)))
    /\ calls' = RemoveAt(calls, c)
    /\ UNCHANGED << dnsRecords, pdnsZones, pdnsRecords, domainMap, domainRules,
                    nextId, budget, hist, restOfDomain >>

\* ManageRecords POST: the record as decoded, saved under domain_id; NS, MX
\* and TXT go to the resolver, A and CNAME only when proxy mode is off
ManageRecords(userID, domainID, record) ==
    /\ budget > 0 /\ budget' = budget - 1
    /\ domainID # "" /\ HasID(domains, domainID)
    /\ RowByID(domains, domainID).userId = userID
    /\ LET domain == RowByID(domains, domainID)
           saved == [id |-> ObjectIDs[nextId], domainId |-> domainID,
                     name |-> record.name, type |-> record.type,
                     content |-> record.content, ttl |-> record.ttl,
                     proxied |-> FALSE]
           toResolver ==
              \/ record.type \in {"NS", "MX", "TXT"}
              \/ record.type \in {"A", "CNAME"} /\ ~domain.proxyEnabled
       IN  /\ dnsRecords' = Append(dnsRecords, saved)
           /\ tasks' = IF toResolver
                         THEN Append(tasks, Task("create", domain.name, domainID,
                                                 FALSE, record))
                         ELSE tasks
    /\ nextId' = nextId + 1
    /\ hist' = Interrupted(hist)
    /\ UNCHANGED << domains, pdnsZones, pdnsRecords, domainMap, domainRules,
                    calls, restOfDomain >>

\* go h.dnsRepo.CreateRecord(ctx, domain.Name, record)
RunCreate(k) ==
    /\ tasks[k].kind \in {"create", "wafA"}
    /\ pdnsZones' = pdnsZones \cup {tasks[k].zone}
    /\ pdnsRecords' = CreateRecord(pdnsRecords, tasks[k].zone, tasks[k].record)
    /\ tasks' = RemoveAt(tasks, k)
    /\ UNCHANGED << domains, dnsRecords, domainMap, domainRules, calls, nextId,
                    budget, hist, restOfDomain >>

\* ToggleProxyMode 316-362: owner check, the flag in the intent store, the
\* swap of the resolver rows in the background
ToggleProxyMode(userID, domainID, enabled) ==
    /\ budget > 0 /\ budget' = budget - 1
    /\ domainID # "" /\ HasID(domains, domainID)
    /\ RowByID(domains, domainID).userId = userID
    /\ domains' = UpdateProxyMode(domains, domainID, enabled)
    /\ tasks' = Append(tasks, Task("swap", RowByID(domains, domainID).name,
                                   domainID, enabled, NoRecord))
    /\ hist' =
          IF /\ enabled /\ hist.phase = 0 /\ tasks = << >> /\ calls = << >>
             /\ ~RowByID(domains, domainID).proxyEnabled
            THEN [hist EXCEPT !.phase = 1, !.toggled = domainID,
                              !.snap = [dnsRecords |-> dnsRecords,
                                        pdnsRecords |-> pdnsRecords]]
          ELSE IF ~enabled /\ hist.phase = 1 /\ hist.toggled = domainID
            THEN [hist EXCEPT !.phase = 2]
          ELSE Interrupted(hist)
    /\ UNCHANGED << dnsRecords, pdnsZones, pdnsRecords, domainMap, domainRules,
                    calls, nextId, restOfDomain >>

\* the goroutine of ToggleProxyMode; the user's records are read when it runs
RunSwap(k) ==
    /\ tasks[k].kind = "swap"
    /\ pdnsZones' = pdnsZones \cup {tasks[k].zone}
    /\ pdnsRecords' = ProxySwap(pdnsRecords, tasks[k].zone, tasks[k].enabled,
                                GetRecords(dnsRecords, tasks[k].domainId))
    /\ tasks' = RemoveAt(tasks, k)
    /\ hist' = [hist EXCEPT !.swapped = TRUE]
    /\ UNCHANGED << domains, dnsRecords, domainMap, domainRules, calls, nextId,
                    budget, restOfDomain >>

\* proxy/handler.go ReloadRules as one step: both maps rebuilt from storage
ReloadRules ==
    /\ budget > 0 /\ budget' = budget - 1
    /\ domainMap' = BuildDomainMap(domains, dnsRecords)
    /\ domainRules' = BuildDomainRules(rules, policies, domains, dnsRecords)
    /\ hist' = [hist EXCEPT !.reloaded = domains]
    /\ UNCHANGED << domains, dnsRecords, pdnsZones, pdnsRecords, calls, tasks,
                    nextId, restOfDomain >>

MaxDomainOps == 3

OriginIP == "203.0.113.10"

\* the records tenants post to ManageRecords: names as the client sends them
DomainRecordRequests ==
    { [name |-> ShopCom, type |-> "A", content |-> OriginIP, ttl |-> 300],
      [name |-> WwwShopCom, type |-> "TXT", content |-> "v=spf1", ttl |-> 300] }

IntentRow(id, domainID, record) ==
    [id |-> id, domainId |-> domainID, name |-> record.name,
     type |-> record.type, content |-> record.content, ttl |-> record.ttl,
     proxied |-> FALSE]

\* t1 owns shop.com, verified and in proxy mode, with an A record kept in the
\* intent store only and a TXT record in both stores; t2 owns blog.com, in
\* DNS-only mode, its A record in both stores
InitDomain ==
    /\ dcall = NoCall
    /\ domains = << [DomainRow("d1", "t1", ShopCom, "active")
                        EXCEPT !.proxyEnabled = TRUE],
                    DomainRow("d2", "t2", BlogCom, "active") >>
    /\ dnsRecords =
          << IntentRow("r1", "d1", [name |-> WwwShopCom, type |-> "A",
                                    content |-> OriginIP, ttl |-> 300]),
             IntentRow("r2", "d1", [name |-> ShopCom, type |-> "TXT",
                                    content |-> "v=spf1", ttl |-> 300]),
             IntentRow("r3", "d2", [name |-> BlogCom, type |-> "A",
                                    content |-> OriginIP, ttl |-> 300]) >>
    /\ rules = << >> /\ policies = << >>
    /\ pdnsZones = {ShopCom, BlogCom}
    /\ pdnsRecords =
          ZoneRows(ShopCom, Nameservers)
          \o << SqlRow(ShopCom, WafARecord(ShopCom, 3600)),
                SqlRow(ShopCom, [name |-> ShopCom, type |-> "TXT",
                                 content |-> "v=spf1", ttl |-> 300]) >>
          \o ZoneRows(BlogCom, Nameservers)
          \o << SqlRow(BlogCom, [name |-> BlogCom, type |-> "A",
                                 content |-> OriginIP, ttl |-> 300]) >>
    /\ domainMap = BuildDomainMap(domains, dnsRecords)
    /\ domainRules = BuildDomainRules(rules, policies, domains, dnsRecords)
    /\ rulesMutex = [writer |-> FALSE, readers |-> 0]
    /\ reload = ReloadIdle /\ reloadQ = 0
    /\ reqs = << >> /\ clients = << >> /\ now = 0
    /\ statsBuffer = << >> /\ lastAlert = {}
    /\ emitted = << >> /\ logTasks = {} /\ logCollection = << >> /\ broadcast = << >>
    /\ calls = << >> /\ tasks = << >> /\ nextId = 1 /\ budget = MaxDomainOps
    /\ rdap = << >>
    /\ hist = [NoHistory EXCEPT !.reloaded = domains]

DomainIDs == {domains[i].id : i \in DOMAIN domains}

NextDomain ==
    \/ \E u \in Tenants, n1 \in NSPool, n2 \in NSPool : AddDomain(u, ShopCom, n1, n2)
    \/ \E k \in DOMAIN tasks : RunProvision(k)
    \/ \E u \in Tenants, d \in DomainIDs, a \in RdapOutcomes : VerifyDomain(u, d, a)
    \/ \E c \in DOMAIN calls : VerifyRevoke(c)
    \/ \E c \in DOMAIN calls : VerifyActivate(c)
    \/ \E c \in DOMAIN calls : VerifyProxyOn(c)
    \/ \E u \in Tenants, d \in DomainIDs, r \in DomainRecordRequests :
          ManageRecords(u, d, r)
    \/ \E k \in DOMAIN tasks : RunCreate(k)
    \/ \E u \in Tenants, d \in DomainIDs, e \in BOOLEAN : ToggleProxyMode(u, d, e)
    \/ \E k \in DOMAIN tasks : RunSwap(k)
    \/ ReloadRules

SpecDomain == InitDomain /\ [][NextDomain]_vars

Quiescent == tasks = << >> /\ calls = << >>

\* C4: after a reload every host of the policy cache, whether it came from a
\* Domain name or from a DNSRecord name, is mapped to the tenant that owns an
\* active Domain row named as the root of the host.
C4_CacheTenantOwnsRoot ==
    \A h \in DOMAIN domainMap :
       \E i \in DOMAIN hist.reloaded :
          /\ hist.reloaded[i].status = "active"
          /\ hist.reloaded[i].name = getRootDomain(h)
          /\ hist.reloaded[i].userId = domainMap[h].userId

\* C5: at most one Domain row of a given name is active, in every state and
\* under every interleaving of create and verify calls.
C5_OneActivePerName ==
    \A i, j \in DOMAIN domains :
       (/\ domains[i].name = domains[j].name
        /\ domains[i].status = "active" /\ domains[j].status = "active") => i = j

ZoneIndexes(zoneName, rType) ==
    {k \in DOMAIN pdnsRecords :
        pdnsRecords[k].zone = zoneName /\ pdnsRecords[k].type = rType}

IntentA(domainID) ==
    {k \in DOMAIN dnsRecords :
        dnsRecords[k].domainId = domainID /\ dnsRecords[k].type = "A"}

\* C6: for an active Domain in proxy mode that has type-A intent records, once
\* the background work is done, the zone holds no A row of the intent store
\* and exactly one A row at the apex, whose content is the WAF address.
C6_ProxyZoneOnlyWafA ==
    Quiescent =>
      \A i \in DOMAIN domains :
         (/\ domains[i].proxyEnabled /\ domains[i].status = "active"
          /\ IntentA(domains[i].id) # {}) =>
            /\ \A k \in ZoneIndexes(domains[i].name, "A") :
                  \A r \in IntentA(domains[i].id) :
                     ~(/\ pdnsRecords[k].name = dnsRecords[r].name
                       /\ pdnsRecords[k].content = dnsRecords[r].content)
            /\ Cardinality({k \in ZoneIndexes(domains[i].name, "A") :
                               /\ pdnsRecords[k].name = domains[i].name
                               /\ pdnsRecords[k].content = WafIP}) = 1
            /\ \A k \in ZoneIndexes(domains[i].name, "A") :
                  pdnsRecords[k].name = domains[i].name =>
                     pdnsRecords[k].content = WafIP

NonRoutable(rows) ==
    SelectSeq(rows, LAMBDA r : r.type \in {"TXT", "MX", "NS", "SOA"})

ToggleProxyStep ==
    \/ \E u \in Tenants, d \in DomainIDs, e \in BOOLEAN : ToggleProxyMode(u, d, e)
    \/ \E k \in DOMAIN tasks : RunSwap(k)

\* C7: a ToggleProxy call, its background swap included, leaves every TXT, MX,
\* NS and SOA row of the resolver store as it was: none removed, none added.
C7_ToggleKeepsNonRoutable ==
    [][ToggleProxyStep => NonRoutable(pdnsRecords') = NonRoutable(pdnsRecords)]_vars

\* a swap has run on shop.com, and the zone still holds its TXT row next to
\* an A row
C7_Witness ==
    /\ hist.swapped
    /\ ZoneIndexes(ShopCom, "TXT") # {}
    /\ ZoneIndexes(ShopCom, "A") # {}
    /\ \E i \in DOMAIN domains : domains[i].name = ShopCom /\ ~domains[i].proxyEnabled

RECURSIVE BagOfRows(_)
BagOfRows(rows) ==
    IF rows = << >> THEN EmptyBag
    ELSE BagOfRows(Tail(rows)) (+) SetToBag({Head(rows)})

\* C8: ToggleProxy(on) then ToggleProxy(off) on a Domain in DNS-only mode,
\* with no intent mutation and no other call in between, leaves the resolver
\* store holding the rows it held before the on.
C8_OnOffRestores ==
    (hist.phase = 2 /\ Quiescent /\ dnsRecords = hist.snap.dnsRecords) =>
       BagOfRows(pdnsRecords) = BagOfRows(hist.snap.pdnsRecords)

C12_FailedFetchKeepsCache ==
    hist.abort.failed =>
       /\ domainMap = hist.abort.m
       /\ domainRules = hist.abort.r

(***************************************************************************)
(* Specification of the rate limiter alone: calls of IsRateLimited by a    *)
(* few clients while the clock advances                                    *)
(***************************************************************************)
MaxLimiterCalls == 4
MaxTime == 5
LimiterIPs == {"ip1", "ip2"}

restOfLimiter == << dcall, domains, dnsRecords, rules, policies, pdnsZones,
                    pdnsRecords, domainMap, domainRules, rulesMutex, reload,
                    reloadQ, reqs, statsBuffer, lastAlert, emitted, logTasks,
                    logCollection, broadcast, calls, tasks, nextId, rdap >>

InitLimiter ==
    /\ dcall = NoCall
    /\ domains = << >> /\ dnsRecords = << >> /\ rules = << >> /\ policies = << >>
    /\ pdnsZones = {} /\ pdnsRecords = << >>
    /\ domainMap = << >> /\ domainRules = << >>
    /\ rulesMutex = [writer |-> FALSE, readers |-> 0]
    /\ reload = [pc |-> "idle"] /\ reloadQ = 0
    /\ reqs = << >> /\ clients = << >> /\ now = 0
    /\ statsBuffer = << >> /\ lastAlert = {}
    /\ emitted = << >> /\ logTasks = {} /\ logCollection = << >> /\ broadcast = << >>
    /\ calls = << >> /\ tasks = << >> /\ nextId = 1 /\ rdap = << >>
    /\ budget = MaxLimiterCalls
    /\ hist = << >>

\* time.Now() moves on
Tick ==
    /\ now < MaxTime
    /\ now' = now + 1
    /\ UNCHANGED << clients, budget, hist, restOfLimiter >>

\* limiter.go 87-89: IsRateLimited(ip) is !Allow(ip); hist keeps the calls
IsRateLimited(ip) ==
    /\ budget > 0 /\ budget' = budget - 1
    /\ clients' = RateLimiterAllow(clients, ip, now).clients
    /\ hist' = Append(hist, [ip |-> ip, at |-> now,
                             limited |-> ~RateLimiterAllow(clients, ip, now).ok])
    /\ UNCHANGED << now, restOfLimiter >>

NextLimiter ==
    \/ Tick
    \/ \E ip \in LimiterIPs : IsRateLimited(ip)

SpecLimiter == InitLimiter /\ [][NextLimiter]_vars

\* the calls of the same client before call k that were admitted in the
\* window that starts at time start
AdmittedIn(k, start) ==
    Cardinality({j \in 1..(k - 1) :
                    /\ hist[j].ip = hist[k].ip /\ ~hist[j].limited
                    /\ Truncate(hist[j].at) = start})

CurrentWindowCount(k) == AdmittedIn(k, Truncate(hist[k].at))
PrevWindowCount(k) == AdmittedIn(k, Truncate(hist[k].at) - WindowTicks)

\* call j is the next call of the client of call k and is made one full
\* window after it
OneWindowLater(k, j) ==
    /\ k < j /\ hist[j].ip = hist[k].ip
    /\ hist[j].at = hist[k].at + WindowTicks
    /\ \A i \in (k + 1)..(j - 1) : hist[i].ip # hist[k].ip

\* C13 as stated: with budget-many requests admitted in the current window
\* the next call is limited, and the call one full window after that call is
\* admitted, at whatever position of the window the budget was reached.
C13_BudgetThenWindow ==
    \A k \in DOMAIN hist :
       CurrentWindowCount(k) = RateLimit =>
          /\ hist[k].limited
          /\ \A j \in DOMAIN hist : OneWindowLater(k, j) => ~hist[j].limited

\* C13, amended: the same, for a limited call made after the first instant of
\* its window; at the first instant the previous window still counts in full.
C13_BudgetThenWindowInside ==
    \A k \in DOMAIN hist :
       CurrentWindowCount(k) = RateLimit =>
          /\ hist[k].limited
          /\ \A j \in DOMAIN hist :
                (OneWindowLater(k, j) /\ hist[k].at # Truncate(hist[k].at))
                   => ~hist[j].limited

\* a client used its budget, was limited inside the window, and called again
\* one full window later
C13_Witness ==
    \E k \in DOMAIN hist, j \in DOMAIN hist :
       /\ CurrentWindowCount(k) = RateLimit /\ hist[k].limited
       /\ hist[k].at # Truncate(hist[k].at)
       /\ OneWindowLater(k, j) /\ ~hist[j].limited

\* C14: a call is admitted exactly when prev_window_count x (1 - elapsed
\* fraction of the current window) + current_window_count, counted before the
\* call, is strictly below the budget; the first call of a client included.
C14_AdmitIffBelowBudget ==
    \A k \in DOMAIN hist :
       ~hist[k].limited <=>
          PrevWindowCount(k) * (WindowTicks - (hist[k].at - Truncate(hist[k].at)))
             + CurrentWindowCount(k) * WindowTicks < RateLimit * WindowTicks

\* a call was limited by the weight of the previous window alone, and a later
\* call in the same window was admitted
C14_Witness ==
    \E k \in DOMAIN hist, j \in DOMAIN hist :
       /\ k < j /\ hist[j].ip = hist[k].ip
       /\ Truncate(hist[j].at) = Truncate(hist[k].at)
       /\ hist[k].limited /\ CurrentWindowCount(k) = 0 /\ PrevWindowCount(k) > 0
       /\ ~hist[j].limited

(***************************************************************************)
(* The scorer in the pipeline                                              *)
(***************************************************************************)
\* C15: the pipeline asks the ML scorer about a request only if the rule
\* engine returned no hard block and a score below 15; for a hard-blocked
\* request or a score of 15 or more no call is made.
C15_MLOnlyBelowBlockScore ==
    \A i \in DOMAIN reqs :
       /\ reqs[i].mlCalled => (~reqs[i].block /\ reqs[i].score < 15)
       /\ (reqs[i].pc \in {"act", "done"} /\ reqs[i].configured
             /\ (reqs[i].block \/ reqs[i].score >= 15)) =>
             (~reqs[i].mlCalled /\ reqs[i].ml = MLZero)

\* one request went past the rule engine with a score of 15 or more without a
\* hard block, another was hard-blocked, a third was scored by the ML service
C15_Witness ==
    /\ \E i \in DOMAIN reqs :
          reqs[i].pc = "done" /\ ~reqs[i].block /\ reqs[i].score >= 15
             /\ ~reqs[i].mlCalled
    /\ \E i \in DOMAIN reqs :
          reqs[i].pc = "done" /\ reqs[i].mlCalled /\ reqs[i].ml # MLZero

(***************************************************************************)
(* Specification of the ML client alone: one call of CheckML on a drawn    *)
(* outcome of the scorer service, and the pipeline's use of the result     *)
(***************************************************************************)
\* results of the rule engine for requests that go on to the scorer
EngineResults ==
    { [score |-> sc, block |-> FALSE, tags |-> tg, payload |-> "rule-payload"] :
         sc \in {0, 5, 10, 14}, tg \in {<< >>, << "Probe" >>} }

\* steps 5 and 6 of the pipeline on an engine result and a scorer result
Scored(eng, ml) ==
    LET d == Decide(eng.score, eng.block, ml.isAnomaly, ml.confidence)
    IN  [verdict |-> d.verdict, tags |-> AppendMLTag(eng.tags, ml),
         trigger |-> FinalTrigger(eng.payload, d.source, ml)]

restOfML == << dcall, domains, dnsRecords, rules, policies, pdnsZones,
               pdnsRecords, domainMap, domainRules, rulesMutex, reload, reloadQ,
               reqs, clients, now, statsBuffer, lastAlert, emitted, logTasks,
               logCollection, broadcast, tasks, nextId, budget, rdap, hist >>

InitRestOfML ==
    /\ domains = << >> /\ dnsRecords = << >> /\ rules = << >> /\ policies = << >>
    /\ pdnsZones = {} /\ pdnsRecords = << >>
    /\ domainMap = << >> /\ domainRules = << >>
    /\ rulesMutex = [writer |-> FALSE, readers |-> 0]
    /\ reload = [pc |-> "idle"] /\ reloadQ = 0
    /\ reqs = << >> /\ clients = << >> /\ now = 0
    /\ statsBuffer = << >> /\ lastAlert = {}
    /\ emitted = << >> /\ logTasks = {} /\ logCollection = << >> /\ broadcast = << >>
    /\ tasks = << >> /\ nextId = 1 /\ budget = 0 /\ rdap = << >>
    /\ hist = << >>

InitML ==
    /\ \E client \in {"detector", "service"}, o \in MLOutcomes, eng \in EngineResults :
          calls = << [client |-> client, outcome |-> o, eng |-> eng,
                      done |-> FALSE, ret |-> MLZero,
                      scored |-> Scored(eng, MLZero)] >>
    /\ dcall = NoCall /\ InitRestOfML

\* detector.CheckML and what the pipeline makes of its result
CallCheckML ==
    /\ ~calls[1].done /\ calls[1].client = "detector"
    /\ calls' = << [calls[1] EXCEPT
                      !.done = TRUE,
                      !.ret = DetectorCheckML(calls[1].outcome),
                      !.scored = Scored(calls[1].eng,
                                        DetectorCheckML(calls[1].outcome))] >>
    /\ UNCHANGED restOfML

\* CheckML of internal/service/detector
CallServiceCheckML ==
    /\ ~calls[1].done /\ calls[1].client = "service"
    /\ calls' = << [calls[1] EXCEPT
                      !.done = TRUE,
                      !.ret = ServiceDetectorCheckML(calls[1].outcome),
                      !.scored = Scored(calls[1].eng,
                                        ServiceDetectorCheckML(calls[1].outcome))] >>
    /\ UNCHANGED restOfML

NextML == CallCheckML \/ CallServiceCheckML

SpecML == InitML /\ [][NextML]_vars

\* network error, timeout, non-2xx status or a body that does not decode
MLCallFailed(o) ==
    o.err # "" \/ o.status < 200 \/ o.status > 299 \/ ~o.decodes

\* C16: on every failure of the ML call the client returns exactly
\* (false, 0.0, "", ""), and the verdict, tags and trigger of the pipeline are
\* those the rule engine gives alone.
C16_MLFailureIsZero ==
    \A c \in DOMAIN calls :
       (calls[c].done /\ MLCallFailed(calls[c].outcome)) =>
          /\ calls[c].ret = MLZero
          /\ calls[c].scored = Scored(calls[c].eng, MLZero)


\* ---------------------------------------------------------------------------
\* Verification of a domain against the registrar (SpecDomain)

\* every assigned nameserver is in the list the registrar reported, letter
\* case aside
AllAssignedListed(assigned, reported) ==
    \A k \in 1..Len(assigned) : \E l \in reported : Fold(l) = Fold(assigned[k])

\* a step that is a verify call
VerifyCalled == hist'.verify # hist.verify

C17_WitnessPartial ==
    /\ hist.verify.kind = "ok" /\ hist.verify.ns = {"ns-a"}
    /\ ~hist.verify.verified /\ hist.verify.response = 409
    /\ HasID(domains, hist.verify.id)
    /\ RowByID(domains, hist.verify.id).status = "pending_verification"

\* C18: a verify call whose RDAP lookup ended in a network error or in a body
\* that does not parse answers 503 and starts no change of a Domain row.
C18_LookupErrorIs503 ==
    hist.verify.kind \in {"network", "unparsable"} =>
        (hist.verify.response = 503 /\ ~hist.verify.verified)


\* ---------------------------------------------------------------------------
\* Tenant isolation of record mutations (SpecDns)

\* the rows of a collection
Range(coll) == { coll[i] : i \in DOMAIN coll }

\* the tenant of the Domain with this id
OwnerOfDomain(domainID) ==
    IF HasID(domains, domainID) THEN RowByID(domains, domainID).userId ELSE ""

\* the tenant of the Domain whose zone this is
OwnerOfZone(zone) ==
    IF \E i \in RowIndexes(domains) : domains[i].name = zone
      THEN domains[CHOOSE i \in RowIndexes(domains) : domains[i].name = zone].userId
      ELSE ""

\* the intent rows under Domains that are not this tenant's
ForeignIntent(recs, u) ==
    { r \in Range(recs) : OwnerOfDomain(r.domainId) # u }

\* the resolver rows in zones of Domains that are not this tenant's
ForeignPublished(rows, u) ==
    { r \in Range(rows) : OwnerOfZone(r.zone) # u }

\* C19: after a record deletion, a proxy toggle or an origin-SSL toggle issued
\* by a tenant, the rows of both stores that belong to Domains of other tenants
\* are what they were before the call, whatever ids the call carried.
C19_MutationStaysInTenant ==
    hist.by # "" =>
       /\ ForeignIntent(dnsRecords, hist.by)
             = ForeignIntent(hist.prev.dnsRecords, hist.by)
       /\ ForeignPublished(pdnsRecords, hist.by)
             = ForeignPublished(hist.prev.pdnsRecords, hist.by)


\* ---------------------------------------------------------------------------
\* Pending domains and the policy cache (SpecDomain)

PendingDomains ==
    { i \in RowIndexes(domains) : domains[i].status = "pending_verification" }

\* C20: no host of the policy cache, whether the name of a Domain or the name
\* of a DNSRecord, is mapped to a Domain that is pending verification; a host
\* that only a pending Domain would supply is not a key because of it.
C20_PendingNeverRouted ==
    \A i \in PendingDomains :
       \A h \in DOMAIN domainMap : domainMap[h].id # domains[i].id

\* a reload has seen a pending Domain that has a record of its own
C20_Witness ==
    /\ hist.reloaded = domains
    /\ domainMap = BuildDomainMap(domains, dnsRecords)
    /\ \E i \in PendingDomains :
          \E k \in RowIndexes(dnsRecords) : dnsRecords[k].domainId = domains[i].id


(***************************************************************************)
(* Publication of one record: database.AddPowerDNSRecord, both versions    *)
(***************************************************************************)
IsSuffix(z, name) ==
    Len(z) <= Len(name) /\ SubSeq(name, Len(name) - Len(z) + 1, Len(name)) = z

\* the older AddPowerDNSRecord: the zone is the longest one the name ends in
\* (WHERE ? LIKE CONCAT('%', name) ORDER BY LENGTH(name) DESC LIMIT 1)
SuffixZones(zones, name) == { z \in zones : IsSuffix(z, name) }

LongestSuffixZone(zones, name) ==
    CHOOSE z \in SuffixZones(zones, name) :
       \A y \in SuffixZones(zones, name) : Len(y) <= Len(z)

\* the older AddPowerDNSRecord: the content of A and AAAA is replaced when
\* proxied, the type never
LegacyPublishedRow(zones, name, rType, content, proxied, wafIP) ==
    [zone |-> LongestSuffixZone(zones, name), name |-> name, type |-> rType,
     content |-> IF proxied /\ rType \in {"A", "AAAA"} THEN wafIP ELSE content,
     ttl |-> 300]

PublishTypes == {"A", "AAAA", "CNAME", "TXT", "MX", "NS", "SOA"}
PublishContents == {"1.1.1.1", "origin.example.net", "v=spf1"}

restOfPublish == << dcall, domains, dnsRecords, rules, policies, pdnsZones,
                    domainMap, domainRules, rulesMutex, reload, reloadQ, reqs,
                    clients, now, statsBuffer, lastAlert, emitted, logTasks,
                    logCollection, broadcast, tasks, nextId, budget, rdap, hist >>

\* one call of AddPowerDNSRecord against a store that has the zone shop.com
InitPublish ==
    /\ \E version \in {"database", "legacy"}, name \in {ShopCom, WwwShopCom},
          rType \in PublishTypes, content \in PublishContents,
          proxied \in BOOLEAN :
          calls = << [version |-> version, name |-> name, type |-> rType,
                      content |-> content, proxied |-> proxied,
                      done |-> FALSE] >>
    /\ dcall = NoCall
    /\ domains = << >> /\ dnsRecords = << >> /\ rules = << >> /\ policies = << >>
    /\ pdnsZones = {ShopCom}
    /\ pdnsRecords = ZoneRows(ShopCom, Nameservers)
    /\ domainMap = << >> /\ domainRules = << >>
    /\ rulesMutex = [writer |-> FALSE, readers |-> 0]
    /\ reload = [pc |-> "idle"] /\ reloadQ = 0
    /\ reqs = << >> /\ clients = << >> /\ now = 0
    /\ statsBuffer = << >> /\ lastAlert = {}
    /\ emitted = << >> /\ logTasks = {} /\ logCollection = << >> /\ broadcast = << >>
    /\ tasks = << >> /\ nextId = 1 /\ budget = 0 /\ rdap = << >>
    /\ hist = << >>

\* database/dns.go AddPowerDNSRecord
AddPowerDNSRecord ==
    /\ ~calls[1].done /\ calls[1].version = "database"
    /\ extractZone(calls[1].name) \in pdnsZones
    /\ pdnsRecords' = Append(pdnsRecords,
          PublishedRow(calls[1].name, calls[1].type, calls[1].content,
                       calls[1].proxied, WafIP))
    /\ calls' = << [calls[1] EXCEPT !.done = TRUE] >>
    /\ UNCHANGED restOfPublish

\* the older AddPowerDNSRecord
LegacyAddPowerDNSRecord ==
    /\ ~calls[1].done /\ calls[1].version = "legacy"
    /\ SuffixZones(pdnsZones, calls[1].name) # {}
    /\ pdnsRecords' = Append(pdnsRecords,
          LegacyPublishedRow(pdnsZones, calls[1].name, calls[1].type,
                             calls[1].content, calls[1].proxied, WafIP))
    /\ calls' = << [calls[1] EXCEPT !.done = TRUE] >>
    /\ UNCHANGED restOfPublish

NextPublish == AddPowerDNSRecord \/ LegacyAddPowerDNSRecord

SpecPublish == InitPublish /\ [][NextPublish]_vars

\* the row the call inserted
Inserted == pdnsRecords[Len(pdnsRecords)]

\* C21: the row published for a TXT, MX, NS or SOA record has the record's own
\* type and content whatever the proxied flag; a published row that differs
\* from the record in type or content belongs to a proxied record of another
\* type and carries the WAF address.
C21_NonProxiablePublishedAsIs ==
    calls[1].done =>
       /\ calls[1].type \in {"TXT", "MX", "NS", "SOA"} =>
             (Inserted.type = calls[1].type /\ Inserted.content = calls[1].content)
       /\ (Inserted.type # calls[1].type \/ Inserted.content # calls[1].content) =>
             /\ calls[1].proxied
             /\ calls[1].type \notin {"TXT", "MX", "NS", "SOA"}
             /\ Inserted.content = WafIP

\* a TXT record sent with proxied=true was published as TXT with its content
C21_Witness ==
    /\ calls[1].done /\ calls[1].type = "TXT" /\ calls[1].proxied
    /\ calls[1].version = "database"
    /\ Inserted.type = "TXT" /\ Inserted.content = "v=spf1"


(***************************************************************************)
(* TTL of created records: api/dns.go addRecord and handler/domain.go      *)
(* ManageRecords, the two handlers registered for POST /api/dns/records    *)
(***************************************************************************)
MaxTTLOps == 2

\* the limits and their neighbours, and the absent TTL
BoundaryTTLs == {0, 59, 60, 86400, 86401}

TTLRecordRequests ==
    [domainId : {"d1"}, name : {"", "www"}, type : {"A", "TXT"},
     content : {"1.1.1.1"}, ttl : BoundaryTTLs, proxied : {FALSE}]

TTLDomainRecordRequests ==
    [name : {ShopCom, WwwShopCom}, type : {"A", "TXT"}, content : {"1.1.1.1"},
     ttl : BoundaryTTLs]

InitTTL ==
    /\ dcall = NoCall
    /\ domains = << DomainRow("d1", "t1", ShopCom, "active"),
                    DomainRow("d2", "t2", BlogCom, "active") >>
    /\ dnsRecords = << >>
    /\ rules = << >> /\ policies = << >>
    /\ pdnsZones = {ShopCom, BlogCom}
    /\ pdnsRecords = ZoneRows(ShopCom, Nameservers) \o ZoneRows(BlogCom, Nameservers)
    /\ domainMap = BuildDomainMap(domains, dnsRecords)
    /\ domainRules = BuildDomainRules(rules, policies, domains, dnsRecords)
    /\ rulesMutex = [writer |-> FALSE, readers |-> 0]
    /\ reload = ReloadIdle /\ reloadQ = 0
    /\ reqs = << >> /\ clients = << >> /\ now = 0
    /\ statsBuffer = << >> /\ lastAlert = {}
    /\ emitted = << >> /\ logTasks = {} /\ logCollection = << >> /\ broadcast = << >>
    /\ calls = << >> /\ tasks = << >> /\ nextId = 1 /\ budget = MaxTTLOps
    /\ rdap = << >>
    /\ hist = NoHistory

NextTTL ==
    \/ \E req \in TTLRecordRequests : addRecord("t1", req)
    \/ \E r \in TTLDomainRecordRequests : ManageRecords("t1", "d1", r)
    \/ \E k \in DOMAIN tasks : RunCreate(k)

SpecTTL == InitTTL /\ [][NextTTL]_vars

\* C22: every record that a creating call stored with a TTL of its own has a
\* TTL from 60 to 86400, the two limits included: a call with TTL 59 or 86401
\* stores nothing, on each handler that creates records.
C22_StoredTTLInRange ==
    \A k \in RowIndexes(dnsRecords) :
       dnsRecords[k].ttl # 0 =>
          (dnsRecords[k].ttl >= 60 /\ dnsRecords[k].ttl <= 86400)


\* ---------------------------------------------------------------------------
\* Takeover on verification (SpecDomain)

\* the Domain with this id is not active before the step and active after it
FlippedToActive(id) ==
    /\ HasID(domains, id) /\ RowByID(domains, id).status # "active"
    /\ HasID(domains', id) /\ RowByID(domains', id).status = "active"

\* C23: at the step in which a verify call makes a Domain active, no other
\* Domain row of the same name, active or pending, of any tenant, exists.
C23_RevokedBeforeActive ==
    [][\A i \in DOMAIN domains :
          FlippedToActive(domains[i].id) =>
             \A j \in DOMAIN domains :
                domains[j].name = domains[i].name => j = i]_vars


(***************************************************************************)
(* Policy overrides of two tenants: api/domains.go ToggleRule and the      *)
(* reload of proxy/handler.go                                              *)
(***************************************************************************)
MaxPolicyOps == 2

\* what a ToggleRule body can name: the global rule r1, the private rule r3
\* of t1, no domain or either domain
PolicyRuleIds == {"r1", "r3"}
PolicyDomainIds == {"", "d1", "d2"}

\* t1 owns the active shop.com and t2 the active blog.com
InitPolicy ==
    /\ dcall = NoCall
    /\ domains = << DomainRow("d1", "t1", ShopCom, "active"),
                    DomainRow("d2", "t2", BlogCom, "active") >>
    /\ dnsRecords = << >>
    /\ rules = InitRules
    /\ policies = << >>
    /\ pdnsZones = {ShopCom, BlogCom}
    /\ pdnsRecords = ZoneRows(ShopCom, Nameservers) \o ZoneRows(BlogCom, Nameservers)
    /\ domainMap = BuildDomainMap(domains, dnsRecords)
    /\ domainRules = BuildDomainRules(rules, policies, domains, dnsRecords)
    /\ rulesMutex = [writer |-> FALSE, readers |-> 0]
    /\ reload = ReloadIdle /\ reloadQ = 0
    /\ reqs = << >> /\ clients = << >> /\ now = 0
    /\ statsBuffer = << >> /\ lastAlert = {}
    /\ emitted = << >> /\ logTasks = {} /\ logCollection = << >> /\ broadcast = << >>
    /\ calls = << >> /\ tasks = << >> /\ nextId = 1 /\ budget = MaxPolicyOps
    /\ rdap = << >>
    /\ hist = [NoHistory EXCEPT !.caches =
                  << CacheVersion(domainMap, domainRules,
                                  Fetched(rules, policies, domains, dnsRecords)) >>]

NextPolicy ==
    \/ \E u \in Tenants, id \in PolicyRuleIds, d \in PolicyDomainIds, e \in BOOLEAN :
          ToggleRule(u, id, d, e)
    \/ ReloadStep

SpecPolicy == InitPolicy /\ [][NextPolicy]_vars

\* the overrides written by one tenant, among those a reload fetched
PoliciesOf(pols, u) == SelectSeq(pols, LAMBDA p : p.userId = u)

\* the data the cache in use was built from
CacheSource == hist.caches[Len(hist.caches)].src

\* C24: the effective ruleset of a Domain depends on the overrides of its own
\* tenant only: the cache a reload installed gives every active Domain the
\* ruleset it would have if the overrides written by all other tenants,
\* tenant-wide or naming a domain, did not exist.
C24_OverrideStaysInTenant ==
    reload.pc = "idle" =>
       \A i \in DOMAIN CacheSource.domains :
          CacheSource.domains[i].status = "active" =>
             Lookup(domainRules, CacheSource.domains[i].name, << >>)
                = EffectiveRules(CacheSource.allRules,
                     PolicyMap(PoliciesOf(CacheSource.policies,
                                          CacheSource.domains[i].userId), 1, << >>),
                     CacheSource.domains[i])


(***************************************************************************)
(* Concurrent addRecord calls: api/dns.go addRecord as the two storage     *)
(* phases it consists of, the conflict queries and the inserts             *)
(***************************************************************************)
MaxAddCalls == 2

ConcurrentRecordRequests ==
    [domainId : {"d1"}, name : {"", "www"}, type : {"A", "CNAME", "TXT"},
     content : {"1.1.1.1", "origin.example.net"}, ttl : {0}, proxied : BOOLEAN]

restOfAdd == << dcall, domains, rules, policies, pdnsZones, domainMap,
                domainRules, rulesMutex, reload, reloadQ, reqs, clients, now,
                statsBuffer, lastAlert, emitted, logTasks, logCollection,
                broadcast, tasks, rdap, hist >>

InitAdd ==
    /\ dcall = NoCall
    /\ domains = << DomainRow("d1", "t1", ShopCom, "active"),
                    DomainRow("d2", "t2", BlogCom, "active") >>
    /\ dnsRecords = << >>
    /\ rules = << >> /\ policies = << >>
    /\ pdnsZones = {ShopCom, BlogCom}
    /\ pdnsRecords = ZoneRows(ShopCom, Nameservers) \o ZoneRows(BlogCom, Nameservers)
    /\ domainMap = BuildDomainMap(domains, dnsRecords)
    /\ domainRules = BuildDomainRules(rules, policies, domains, dnsRecords)
    /\ rulesMutex = [writer |-> FALSE, readers |-> 0]
    /\ reload = ReloadIdle /\ reloadQ = 0
    /\ reqs = << >> /\ clients = << >> /\ now = 0
    /\ statsBuffer = << >> /\ lastAlert = {}
    /\ emitted = << >> /\ logTasks = {} /\ logCollection = << >> /\ broadcast = << >>
    /\ calls = << >> /\ tasks = << >> /\ nextId = 1 /\ budget = MaxAddCalls
    /\ rdap = << >>
    /\ hist = NoHistory

\* addRecord 45-224: validation, ownership, status and the conflict queries
\* against the intent store as it is now; the call goes on to its inserts
addRecordCheck(userID, req) ==
    /\ budget > 0 /\ budget' = budget - 1
    /\ ValidRecordRequest(req)
    /\ HasID(domains, req.domainId)
    /\ LET domain == RowByID(domains, req.domainId)
           recordName == RecordName(req, domain)
       IN  /\ domain.userId = userID
           /\ domain.status = "active"
           /\ ~(req.type = "CNAME" /\ recordName = domain.name)
           /\ ~(req.type = "CNAME" /\ << req.content >> = recordName)
           /\ ~RecordConflict(dnsRecords, req, recordName)
           /\ calls' = Append(calls,
                 [pc |-> "insert", req |-> req, recordName |-> recordName])
    /\ UNCHANGED << dnsRecords, pdnsRecords, nextId, restOfAdd >>

\* addRecord 226-254: CreateDNSRecord, then AddPowerDNSRecord
addRecordInsert(c) ==
    /\ calls[c].pc = "insert"
    /\ LET req == calls[c].req
           recordName == calls[c].recordName
           newRecord == [id |-> ObjectIDs[nextId], domainId |-> req.domainId,
                         name |-> recordName, type |-> req.type,
                         content |-> req.content, ttl |-> DefaultedTTL(req.ttl),
                         proxied |-> req.proxied, originSsl |-> FALSE]
       IN  /\ dnsRecords' = Append(dnsRecords, newRecord)
           /\ pdnsRecords' =
                 IF extractZone(recordName) \in pdnsZones
                   THEN Append(pdnsRecords,
                           PublishedRow(recordName, req.type, req.content,
                                        req.proxied, WafIP))
                   ELSE pdnsRecords
    /\ nextId' = nextId + 1
    /\ calls' = RemoveAt(calls, c)
    /\ UNCHANGED << budget, restOfAdd >>

NextAdd ==
    \/ \E req \in ConcurrentRecordRequests : addRecordCheck("t1", req)
    \/ \E c \in DOMAIN calls : addRecordInsert(c)

SpecAdd == InitAdd /\ [][NextAdd]_vars

\* C25: in the intent store no name has a CNAME record together with another
\* record, a second CNAME included, however the calls that add records are
\* interleaved.
C25_CnameAlone ==
    \A i, j \in DOMAIN dnsRecords :
       (/\ i # j
        /\ dnsRecords[i].name = dnsRecords[j].name
        /\ dnsRecords[i].type = "CNAME") => FALSE


\* ---------------------------------------------------------------------------
\* What a successful verify call has done when it returns (SpecDomain)

\* the step in which the verify call c writes its success response
VerifyReturns(c) == calls[c].pc = "proxy" /\ calls' = RemoveAt(calls, c)

\* C26: at the step in which a verify call returns success, the Domain is
\* active with proxy mode on and the resolver store holds the WAF A record at
\* the apex of its zone.
C26_ProvisionedOnReturn ==
    [][\A c \in DOMAIN calls :
          VerifyReturns(c) =>
             /\ HasID(domains', calls[c].domain.id) =>
                   /\ RowByID(domains', calls[c].domain.id).status = "active"
                   /\ RowByID(domains', calls[c].domain.id).proxyEnabled
             /\ \E k \in DOMAIN pdnsRecords' :
                   /\ pdnsRecords'[k].zone = calls[c].domain.name
                   /\ pdnsRecords'[k].name = calls[c].domain.name
                   /\ pdnsRecords'[k].type = "A"
                   /\ pdnsRecords'[k].content = WafIP]_vars


(***************************************************************************)
(* Mirroring of new records to the resolver: handler/domain.go ManageRecords *)
(* and its background insert, for every record type                        *)
(***************************************************************************)
MirrorTypes == {"A", "AAAA", "CNAME", "TXT", "MX", "NS", "SOA"}

MirrorContent == "198.51.100.7"

MirrorRequests ==
    [name : {WwwShopCom}, type : MirrorTypes, content : {MirrorContent},
     ttl : {300}]

NextMirror ==
    \/ \E u \in Tenants, d \in {"d1", "d2"}, r \in MirrorRequests :
          ManageRecords(u, d, r)
    \/ \E k \in DOMAIN tasks : RunCreate(k)

SpecMirror == InitDomain /\ [][NextMirror]_vars

\* the records the calls of this run created
CreatedRecords == { k \in DOMAIN dnsRecords : dnsRecords[k].content = MirrorContent }

\* the resolver store has a row for this intent record
Mirrored(rec) ==
    \E k \in DOMAIN pdnsRecords :
       /\ pdnsRecords[k].zone = RowByID(domains, rec.domainId).name
       /\ pdnsRecords[k].name = rec.name
       /\ pdnsRecords[k].type = rec.type
       /\ pdnsRecords[k].content = rec.content

\* C27: once the background inserts are done, a created record has a row in
\* the resolver store exactly when its type is TXT, MX, NS or SOA, or its
\* type is A or CNAME and its Domain has proxy mode off.
C27_MirroredIff ==
    tasks = << >> =>
       \A k \in CreatedRecords :
          Mirrored(dnsRecords[k]) <=>
             \/ dnsRecords[k].type \in {"TXT", "MX", "NS", "SOA"}
             \/ /\ dnsRecords[k].type \in {"A", "CNAME"}
                /\ ~RowByID(domains, dnsRecords[k].domainId).proxyEnabled


(***************************************************************************)
(* Proxy-mode toggles and their background swaps alone                     *)
(***************************************************************************)
NextToggle ==
    \/ \E u \in Tenants, d \in DomainIDs, e \in BOOLEAN : ToggleProxyMode(u, d, e)
    \/ \E k \in DOMAIN tasks : RunSwap(k)

SpecToggle == InitDomain /\ [][NextToggle]_vars

\* the resolver store answers the apex of this zone with the WAF address
ApexIsWaf(zoneName) ==
    \E k \in DOMAIN pdnsRecords :
       /\ pdnsRecords[k].zone = zoneName /\ pdnsRecords[k].name = zoneName
       /\ pdnsRecords[k].type = "A" /\ pdnsRecords[k].content = WafIP

\* C28: when every toggle call has returned and every swap they started has
\* run, the resolver store of each Domain is in the mode the intent store
\* holds: the WAF A record is at the apex exactly when proxy mode is on.
C28_LastToggleWins ==
    tasks = << >> =>
       \A i \in DOMAIN domains :
          ApexIsWaf(domains[i].name) <=> domains[i].proxyEnabled


\* ---------------------------------------------------------------------------
\* The write lock during a reload (Spec)

\* the reload is at one of its four storage fetches
ReloadFetching == reload.pc \in {"rules", "policies", "domains", "records"}

\* C29: while a reload fetches from storage it does not hold the write lock of
\* the cache, so a request can take the read lock for its lookup at once.
C29_FetchOutsideLock ==
    ReloadFetching => (~rulesMutex.writer /\ CanRLock(rulesMutex))


(***************************************************************************)
(* Mutations and the reloads they start: the verify call of                *)
(* handler/domain.go and the policy toggle, with the stepwise reload       *)
(***************************************************************************)
NextReload ==
    \/ \E u \in Tenants, n1 \in NSPool, n2 \in NSPool : AddDomain(u, ShopCom, n1, n2)
    \/ \E k \in DOMAIN tasks : RunProvision(k)
    \/ \E u \in Tenants, d \in DomainIDs, a \in RdapOutcomes : VerifyDomain(u, d, a)
    \/ \E c \in DOMAIN calls : VerifyRevoke(c)
    \/ \E c \in DOMAIN calls : VerifyActivate(c)
    \/ \E c \in DOMAIN calls : VerifyProxyOn(c)
    \/ \E k \in DOMAIN tasks : RunCreate(k)
    \/ \E u \in ToggleUsers, id \in ToggleRuleIds, d \in ToggleDomainIds, e \in BOOLEAN :
          ToggleRule(u, id, d, e)
    \/ ReloadStep

SpecReload == InitDomain /\ [][NextReload]_vars

\* C30: the step that completes a mutation starts a reload of the policy
\* cache: the return of a verify call that activated a Domain, and the write
\* of a policy override, each leave one more reload requested.
C30_MutationStartsReload ==
    [][/\ \A c \in DOMAIN calls :
             (VerifyReturns(c) /\ calls[c].domain.status # "active")
                => reloadQ' > reloadQ
       /\ policies' # policies => reloadQ' > reloadQ]_vars


(***************************************************************************)
(* Statistics buffer and its flusher: TrackRequest and flushStats of       *)
(* internal/service/rule_service.go.  Here tasks holds the entries of the  *)
(* flusher's snapshot not yet pushed, calls the IncrementDomainStats       *)
(* requests issued, and hist every increment made, per domain.             *)
(***************************************************************************)
MaxTracked == 3

StatsDomains == {"d1", "d2"}

NoDelta == [Total |-> 0, Flagged |-> 0, Blocked |-> 0]

restOfStats == << dcall, domains, dnsRecords, rules, policies, pdnsZones,
                  pdnsRecords, domainMap, domainRules, rulesMutex, reload,
                  reloadQ, reqs, clients, now, lastAlert, emitted, logTasks,
                  logCollection, broadcast, nextId, rdap >>

InitStats ==
    /\ statsBuffer = << >> /\ tasks = << >> /\ calls = << >>
    /\ hist = << >> /\ budget = MaxTracked
    /\ dcall = NoCall
    /\ domains = << >> /\ dnsRecords = << >> /\ rules = << >> /\ policies = << >>
    /\ pdnsZones = {} /\ pdnsRecords = << >>
    /\ domainMap = << >> /\ domainRules = << >>
    /\ rulesMutex = [writer |-> FALSE, readers |-> 0]
    /\ reload = [pc |-> "idle"] /\ reloadQ = 0
    /\ reqs = << >> /\ clients = << >> /\ now = 0 /\ lastAlert = {}
    /\ emitted = << >> /\ logTasks = {} /\ logCollection = << >> /\ broadcast = << >>
    /\ nextId = 1 /\ rdap = << >>

\* the pipeline counts a request, under statsMu
CallTrackRequest(domainID, isFlagged, isBlocked) ==
    /\ budget > 0 /\ budget' = budget - 1
    /\ statsBuffer' = TrackRequest(statsBuffer, domainID, isFlagged, isBlocked)
    /\ hist' = TrackRequest(hist, domainID, isFlagged, isBlocked)
    /\ UNCHANGED << tasks, calls, restOfStats >>

\* a snapshot of all entries in some order of the map iteration
RECURSIVE SnapshotOf(_, _)
SnapshotOf(buf, keys) ==
    IF keys = {} THEN << >>
    ELSE LET d == CHOOSE x \in keys : TRUE
         IN  << [domainId |-> d, delta |-> buf[d]] >> \o SnapshotOf(buf, keys \ {d})

\* a flusher that copies the buffer and leaves it as it is
flushStatsSnapshotKeeping ==
    /\ tasks = << >> /\ DOMAIN statsBuffer # {}
    /\ tasks' = SnapshotOf(statsBuffer, DOMAIN statsBuffer)
    /\ UNCHANGED << statsBuffer, calls, hist, budget, restOfStats >>

\* flushStats 174-186: under statsMu, nothing when the buffer is empty, else
\* the entries are copied and the buffer is replaced by an empty map
flushStatsSnapshot ==
    /\ tasks = << >> /\ DOMAIN statsBuffer # {}
    /\ tasks' = SnapshotOf(statsBuffer, DOMAIN statsBuffer)
    /\ statsBuffer' = << >>
    /\ UNCHANGED << calls, hist, budget, restOfStats >>

\* flushStats 188-198: outside the lock, one IncrementDomainStats per entry
\* with Total > 0, in the order of the map iteration; an error is logged
flushStatsPush(k) ==
    /\ tasks' = RemoveAt(tasks, k)
    /\ calls' = IF tasks[k].delta.Total > 0 THEN Append(calls, tasks[k]) ELSE calls
    /\ UNCHANGED << statsBuffer, hist, budget, restOfStats >>

NextStats ==
    \/ \E d \in StatsDomains, f \in BOOLEAN, b \in BOOLEAN : CallTrackRequest(d, f, b)
    \/ flushStatsSnapshot
    \/ \E k \in DOMAIN tasks : flushStatsPush(k)

SpecStats == InitStats /\ [][NextStats]_vars

Counters == {"Total", "Flagged", "Blocked"}

\* the sum of one counter of one domain over a sequence of entries
RECURSIVE SumFor(_, _, _)
SumFor(entries, d, c) ==
    IF entries = << >> THEN 0
    ELSE (IF Head(entries).domainId = d THEN Head(entries).delta[c] ELSE 0)
            + SumFor(Tail(entries), d, c)

\* C31: for every domain and counter, the increments made are the increments
\* sent in storage requests plus those in the flusher's snapshot still to be
\* sent plus those in the buffer: none is lost by the snapshot-and-clear step
\* and none is sent twice.
C31_IncrementsConserved ==
    \A d \in StatsDomains, c \in Counters :
       Lookup(hist, d, NoDelta)[c]
          = SumFor(calls, d, c) + SumFor(tasks, d, c)
              + Lookup(statsBuffer, d, NoDelta)[c]

\* a request was counted between the snapshot and the pushes of a flush: one
\* domain's entry is sent, another's is still to be sent, the buffer has the
\* new increment
C31_Witness ==
    /\ calls # << >> /\ tasks # << >>
    /\ \E d \in DOMAIN statsBuffer : statsBuffer[d].Total > 0 /\ SumFor(calls, d, "Total") > 0

(***************************************************************************)
(* The two maps of the policy cache, internal/proxy/handler.go ReloadRules,*)
(* with records whose names the tenants choose                             *)
(***************************************************************************)
\* the records posted to ManageRecords: the name of a host under the
\* tenant's own domain, and the name of another Domain
CacheRecordRequests ==
    { [name |-> WwwShopCom, type |-> "A", content |-> OriginIP, ttl |-> 300],
      [name |-> BlogCom, type |-> "A", content |-> OriginIP, ttl |-> 300] }

\* t1 owns the active shop.com and t2 the active blog.com; the rules are two
\* global ones and a private one of t1
InitCache ==
    /\ dcall = NoCall
    /\ domains = << DomainRow("d1", "t1", ShopCom, "active"),
                    DomainRow("d2", "t2", BlogCom, "active") >>
    /\ dnsRecords = << >>
    /\ rules = InitRules
    /\ policies = << >>
    /\ pdnsZones = {ShopCom, BlogCom}
    /\ pdnsRecords = ZoneRows(ShopCom, Nameservers) \o ZoneRows(BlogCom, Nameservers)
    /\ domainMap = BuildDomainMap(domains, dnsRecords)
    /\ domainRules = BuildDomainRules(rules, policies, domains, dnsRecords)
    /\ rulesMutex = [writer |-> FALSE, readers |-> 0]
    /\ reload = ReloadIdle /\ reloadQ = 0
    /\ reqs = << >> /\ clients = << >> /\ now = 0
    /\ statsBuffer = << >> /\ lastAlert = {}
    /\ emitted = << >> /\ logTasks = {} /\ logCollection = << >> /\ broadcast = << >>
    /\ calls = << >> /\ tasks = << >> /\ nextId = 1 /\ budget = MaxDomainOps
    /\ rdap = << >>
    /\ hist = [NoHistory EXCEPT !.reloaded = domains]

NextCache ==
    \/ \E u \in Tenants, d \in DomainIDs, r \in CacheRecordRequests :
          ManageRecords(u, d, r)
    \/ \E k \in DOMAIN tasks : RunCreate(k)
    \/ ReloadRules

SpecCache == InitCache /\ [][NextCache]_vars

\* C32: for every host of the host map, the rule list stored for the host is
\* the effective ruleset of the Domain the host map returns for it.
C32_RulesOfMappedDomain ==
    \A h \in DOMAIN domainMap :
       /\ h \in DOMAIN domainRules
       /\ domainRules[h]
            = EffectiveRules(rules, PolicyMap(policies, 1, << >>), domainMap[h])

(***************************************************************************)
(* Origin selection: database.GetOriginRecord and the proxy's director     *)
(***************************************************************************)
\* the rows of the intent store with this name and type, in stored order
OriginMatches(recs, host, type) ==
    { k \in DOMAIN recs : recs[k].name = host /\ recs[k].type = type }

\* dns_mongo_repo.go 95-109: the first A record of the name, else the first
\* CNAME record of the name, else none (0); the Domain of the row is not looked at
GetOriginRecord(recs, host) ==
    IF OriginMatches(recs, host, "A") # {}
      THEN CHOOSE k \in OriginMatches(recs, host, "A") :
              \A j \in OriginMatches(recs, host, "A") : k <= j
    ELSE IF OriginMatches(recs, host, "CNAME") # {}
      THEN CHOOSE k \in OriginMatches(recs, host, "CNAME") :
              \A j \in OriginMatches(recs, host, "CNAME") : k <= j
    ELSE 0

\* proxy.go 45-82: the director forwards to the content of the origin record
\* of the incoming host; a host is forwarded when the host map has it
ForwardedOrigin(host) == GetOriginRecord(dnsRecords, host)

\* the Domain a stored record hangs on was the active Domain of another
\* tenant than u and was deleted by the last verification
OfPreviousOwner(rec, u) ==
    /\ ~HasID(domains, rec.domainId)
    /\ HasID(hist.verify.before, rec.domainId)
    /\ RowByID(hist.verify.before, rec.domainId).status = "active"
    /\ RowByID(hist.verify.before, rec.domainId).userId # u

\* C33: after a takeover of a name, a request for that host is never forwarded
\* to an origin taken from a record created under the previous owner's Domain,
\* which the takeover deleted.
C33_OriginNotOfPreviousOwner ==
    \A i \in DOMAIN domains :
       /\ domains[i].status = "active"
       /\ domains[i].name \in DOMAIN domainMap
       /\ ForwardedOrigin(domains[i].name) # 0
       => ~OfPreviousOwner(dnsRecords[ForwardedOrigin(domains[i].name)],
                           domains[i].userId)

(***************************************************************************)
(* Which rules are on for a Domain: the overrides, the rule's own flag and *)
(* the rule engine, on drawn rules and overrides                           *)
(***************************************************************************)
\* the stored rules with drawn values of their own enabled flag
RulesWithDefaults(e1, e3) ==
    [k \in DOMAIN InitRules |->
        IF InitRules[k].id = "r1" THEN [InitRules[k] EXCEPT !.enabled = e1]
        ELSE IF InitRules[k].id = "r3" THEN [InitRules[k] EXCEPT !.enabled = e3]
        ELSE InitRules[k]]

OverrideChoices == {"none", "on", "off"}

\* the override rows of tenant t1 for one rule: one naming d1, one tenant-wide
OverrideRows(id, perDomain, tenantWide) ==
    (IF perDomain = "none" THEN << >>
     ELSE << [userId |-> "t1", ruleId |-> id, domainId |-> "d1",
              enabled |-> perDomain = "on"] >>)
    \o (IF tenantWide = "none" THEN << >>
        ELSE << [userId |-> "t1", ruleId |-> id, domainId |-> "",
                 enabled |-> tenantWide = "on"] >>)

\* t1 owns the active shop.com; the rules' flags and the overrides are drawn;
\* no cache is built yet
InitEnabled ==
    /\ dcall = NoCall
    /\ domains = << DomainRow("d1", "t1", ShopCom, "active") >>
    /\ dnsRecords = << >>
    /\ \E e1 \in BOOLEAN, e3 \in BOOLEAN : rules = RulesWithDefaults(e1, e3)
    /\ \E id \in {"r1", "r3"}, pd \in OverrideChoices, tw \in OverrideChoices :
          policies = OverrideRows(id, pd, tw)
    /\ pdnsZones = {ShopCom}
    /\ pdnsRecords = ZoneRows(ShopCom, Nameservers)
    /\ domainMap = << >> /\ domainRules = << >>
    /\ rulesMutex = [writer |-> FALSE, readers |-> 0]
    /\ reload = ReloadIdle /\ reloadQ = 0
    /\ reqs = << >> /\ clients = << >> /\ now = 0
    /\ statsBuffer = << >> /\ lastAlert = {}
    /\ emitted = << >> /\ logTasks = {} /\ logCollection = << >> /\ broadcast = << >>
    /\ calls = << >> /\ tasks = << >> /\ nextId = 1 /\ budget = 1
    /\ rdap = << >>
    /\ hist = NoHistory

\* the rule engine on a request for a configured host: calls keeps the
\* request and the engine's result
EngineCheck(host, payload) ==
    /\ calls = << >> /\ host \in DOMAIN domainMap
    /\ calls' = << [host |-> host, payload |-> payload,
                    result |-> DetectorCheckRequest(
                                  [payload |-> payload],
                                  Lookup(domainRules, host, << >>), FALSE)] >>
    /\ UNCHANGED << domains, dnsRecords, pdnsZones, pdnsRecords, domainMap,
                    domainRules, tasks, nextId, budget, hist, restOfDomain >>

NextEnabled ==
    \/ ReloadRules
    \/ \E host \in {ShopCom}, payload \in Payloads : EngineCheck(host, payload)

SpecEnabled == InitEnabled /\ [][NextEnabled]_vars

\* the override that decides for rule id at domain d: the one naming the
\* domain, else the tenant-wide one of the domain's owner, else none
RECURSIVE OverrideOf(_, _, _, _, _)
OverrideOf(pols, i, id, d, found) ==
    IF i > Len(pols) THEN found
    ELSE OverrideOf(pols, i + 1, id, d,
            IF pols[i].ruleId = id /\ pols[i].userId = d.userId
                 /\ pols[i].domainId = d.id
              THEN [pols[i] EXCEPT !.ruleId = "domain"]
            ELSE IF pols[i].ruleId = id /\ pols[i].userId = d.userId
                      /\ pols[i].domainId = "" /\ found.ruleId # "domain"
              THEN [pols[i] EXCEPT !.ruleId = "tenant"]
            ELSE found)

\* enabled at d as specified: the per-domain override, else the tenant-wide
\* override, else the rule's own flag
EnabledAt(rule, d) ==
    LET o == OverrideOf(policies, 1, rule.id, d,
                        [userId |-> "", ruleId |-> "", domainId |-> "",
                         enabled |-> FALSE])
    IN  IF o.ruleId = "" THEN rule.enabled ELSE o.enabled

\* C34: the rule engine evaluates precisely the rules enabled at the Domain,
\* enabled being the per-domain override, else the tenant-wide override, else
\* the rule's own default: a rule visible to the Domain adds its tag to the
\* result exactly when it is enabled and all its conditions are true.
C34_EnabledRulesEvaluated ==
    \A c \in DOMAIN calls, k \in DOMAIN rules :
       LET d == domainMap[calls[c].host]
           rule == rules[k]
       IN  (rule.ownerId = "" \/ rule.ownerId = d.userId) =>
              ((\E t \in DOMAIN calls[c].result.tags :
                    calls[c].result.tags[t] = rule.tags[1])
                 <=> /\ EnabledAt(rule, d)
                     /\ AllConditions(rule.conditions, 1,
                                      [payload |-> calls[c].payload], FALSE))

\* the rules of a list all of whose conditions are true for the request
AllTrueRules(rs, payload) ==
    SelectSeq(rs, LAMBDA rule :
                     AllConditions(rule.conditions, 1, [payload |-> payload], FALSE))

RECURSIVE SumScoreAdd(_)
SumScoreAdd(rs) ==
    IF rs = << >> THEN 0 ELSE Head(rs).scoreAdd + SumScoreAdd(Tail(rs))

RECURSIVE AllTags(_)
AllTags(rs) ==
    IF rs = << >> THEN << >> ELSE Head(rs).tags \o AllTags(Tail(rs))

\* C35: for the ruleset the policy cache supplies for the host, the engine's
\* score is the sum of score_add over exactly the rules all of whose
\* conditions are true, its tags are the tags of those rules, and hard_block
\* is true exactly when one of those rules has hard_block set.
C35_EngineSumsMatchingRules ==
    \A c \in DOMAIN calls :
       LET matching == AllTrueRules(Lookup(domainRules, calls[c].host, << >>),
                                    calls[c].payload)
       IN  /\ calls[c].result.score = SumScoreAdd(matching)
           /\ calls[c].result.tags = AllTags(matching)
           /\ calls[c].result.block
                 <=> \E k \in DOMAIN matching : matching[k].hardBlock

\* C36: every request on a configured host that ServeHTTP has finished has a
\* log event whose action follows the verdict: after Monitor the request was
\* forwarded and the event says Flagged, after Allow the request was forwarded
\* and the event says Allowed.
C36_EveryVerdictLogged ==
    \A i \in DOMAIN reqs :
       (reqs[i].variant = "proxy" /\ reqs[i].pc = "done" /\ reqs[i].configured) =>
          /\ EventsOf(i) # {}
          /\ reqs[i].verdict = Monitor =>
                /\ reqs[i].forwarded
                /\ \A k \in EventsOf(i) : emitted[k].action = "Flagged"
          /\ reqs[i].verdict = Allow =>
                /\ reqs[i].forwarded
                /\ \A k \in EventsOf(i) : emitted[k].action = "Allowed"

(***************************************************************************)
(* The trigger payload of the log event, on scorer answers with and        *)
(* without trigger_content                                                 *)
(***************************************************************************)
\* answers of the scorer service: trigger_content is an optional field
TriggerAnswers ==
    { [isAnomaly |-> a, confidence |-> cf, tag |-> "SQLi", trigger |-> tr] :
         a \in BOOLEAN, cf \in {50, 91}, tr \in {"", "ml-trigger"} }

InitTrigger ==
    /\ \E b \in TriggerAnswers, eng \in EngineResults :
          calls = << [client |-> "detector",
                      outcome |-> [err |-> "", status |-> 200, decodes |-> TRUE,
                                   body |-> b],
                      eng |-> eng, done |-> FALSE, ret |-> MLZero,
                      scored |-> Scored(eng, MLZero)] >>
    /\ dcall = NoCall /\ InitRestOfML

NextTrigger == CallCheckML

SpecTrigger == InitTrigger /\ [][NextTrigger]_vars

\* the source of the verdict of a finished call
SourceOf(c) ==
    Decide(c.eng.score, c.eng.block, c.ret.isAnomaly, c.ret.confidence).source

\* C37: the trigger payload is ml_trigger exactly when the verdict source is
\* ML Engine or Hybrid and ml_trigger is not empty; in every other case it is
\* the combined inspection string of the rule engine.
C37_TriggerFromML ==
    \A c \in DOMAIN calls :
       calls[c].done =>
          calls[c].scored.trigger =
             IF /\ SourceOf(calls[c]) \in {"ML Engine", "Hybrid"}
                /\ calls[c].ret.trigger # ""
               THEN calls[c].ret.trigger
             ELSE calls[c].eng.payload

(***************************************************************************)
(* Log broker: Subscribe, Unsubscribe and LogAttack of the logger package  *)
(* (unnamed/part_014 and part_015).  Here broadcast maps every channel     *)
(* made to its state, calls is broker.subscribers, rulesMutex is broker.mu,*)
(* tasks are the LogAttack calls under way, nextId numbers the channels    *)
(* and hist keeps what happened.                                           *)
(***************************************************************************)
MaxBrokerOps == 4
MaxSubscribers == 2
\* capacity of a subscriber channel (100 or 50 in the source)
SubscriberCap == 1

NoBrokerHistory ==
    [sentOnClosed |-> FALSE, closedTwice |-> FALSE, noops |-> 0,
     events |-> 0, finished |-> << >>]

restOfBroker == << dcall, domains, dnsRecords, rules, policies, pdnsZones,
                   pdnsRecords, domainMap, domainRules, reload, reloadQ, reqs,
                   clients, now, statsBuffer, lastAlert, emitted, logTasks,
                   logCollection, rdap >>

InitBroker ==
    /\ broadcast = << >> /\ calls = {} /\ tasks = << >>
    /\ rulesMutex = [writer |-> FALSE, readers |-> 0]
    /\ nextId = 1 /\ budget = MaxBrokerOps
    /\ hist = NoBrokerHistory
    /\ dcall = NoCall
    /\ domains = << >> /\ dnsRecords = << >> /\ rules = << >> /\ policies = << >>
    /\ pdnsZones = {} /\ pdnsRecords = << >>
    /\ domainMap = << >> /\ domainRules = << >>
    /\ reload = [pc |-> "idle"] /\ reloadQ = 0
    /\ reqs = << >> /\ clients = << >> /\ now = 0
    /\ statsBuffer = << >> /\ lastAlert = {}
    /\ emitted = << >> /\ logTasks = {} /\ logCollection = << >>
    /\ rdap = << >>

\* Subscribe: under the lock, a new buffered channel is made and registered
Subscribe ==
    /\ budget > 0 /\ budget' = budget - 1
    /\ nextId <= MaxSubscribers
    /\ CanLock(rulesMutex)
    /\ broadcast' = Put(broadcast, nextId, [closed |-> FALSE, buf |-> << >>])
    /\ calls' = calls \cup {nextId}
    /\ nextId' = nextId + 1
    /\ UNCHANGED << rulesMutex, tasks, hist, restOfBroker >>

\* an Unsubscribe that closes the channel whether it is registered or not
UnsubscribeUnchecked(ch) ==
    /\ budget > 0 /\ budget' = budget - 1
    /\ CanLock(rulesMutex)
    /\ calls' = calls \ {ch}
    /\ broadcast' = [broadcast EXCEPT ![ch].closed = TRUE]
    /\ hist' = [hist EXCEPT !.closedTwice = @ \/ broadcast[ch].closed]
    /\ UNCHANGED << rulesMutex, tasks, nextId, restOfBroker >>

\* Unsubscribe: under the lock, a registered channel is removed and closed;
\* for any other channel nothing is done.  Closing a closed channel panics.
Unsubscribe(ch) ==
    /\ budget > 0 /\ budget' = budget - 1
    /\ CanLock(rulesMutex)
    /\ IF ch \in calls
         THEN /\ calls' = calls \ {ch}
              /\ broadcast' = [broadcast EXCEPT ![ch].closed = TRUE]
              /\ hist' = [hist EXCEPT !.closedTwice = @ \/ broadcast[ch].closed]
         ELSE /\ UNCHANGED << calls, broadcast >>
              /\ hist' = [hist EXCEPT !.noops = @ + 1]
    /\ UNCHANGED << rulesMutex, tasks, nextId, restOfBroker >>

\* LogAttack takes broker.mu: the write lock in part_015, the read lock in
\* part_014; the loop runs over the subscribers
LogAttackLock(shared) ==
    /\ budget > 0 /\ budget' = budget - 1
    /\ IF shared THEN CanRLock(rulesMutex) ELSE CanLock(rulesMutex)
    /\ rulesMutex' = IF shared THEN [rulesMutex EXCEPT !.readers = @ + 1]
                     ELSE [rulesMutex EXCEPT !.writer = TRUE]
    /\ tasks' = Append(tasks, [entry |-> hist.events + 1, shared |-> shared,
                               subs |-> calls, todo |-> calls,
                               sent |-> {}, dropped |-> {}])
    /\ hist' = [hist EXCEPT !.events = @ + 1]
    /\ UNCHANGED << broadcast, calls, nextId, restOfBroker >>

\* a send that waits for room in the buffer
LogAttackSendWaiting(c, ch) ==
    /\ ch \in tasks[c].todo
    /\ Len(broadcast[ch].buf) < SubscriberCap
    /\ broadcast' = [broadcast EXCEPT ![ch].buf = Append(@, tasks[c].entry)]
    /\ tasks' = [tasks EXCEPT ![c].todo = @ \ {ch}, ![c].sent = @ \cup {ch}]
    /\ hist' = [hist EXCEPT !.sentOnClosed = @ \/ broadcast[ch].closed]
    /\ UNCHANGED << calls, rulesMutex, nextId, budget, restOfBroker >>

\* one turn of the loop: select { case ch <- entry: default: }.  A send on a
\* closed channel panics; with room the entry is queued, else it is dropped
LogAttackSend(c, ch) ==
    /\ ch \in tasks[c].todo
    /\ IF broadcast[ch].closed \/ Len(broadcast[ch].buf) < SubscriberCap
         THEN /\ broadcast' = [broadcast EXCEPT
                     ![ch].buf = IF broadcast[ch].closed THEN @
                                 ELSE Append(@, tasks[c].entry)]
              /\ tasks' = [tasks EXCEPT ![c].todo = @ \ {ch},
                                        ![c].sent = @ \cup {ch}]
         ELSE /\ broadcast' = broadcast
              /\ tasks' = [tasks EXCEPT ![c].todo = @ \ {ch},
                                        ![c].dropped = @ \cup {ch}]
    /\ hist' = [hist EXCEPT !.sentOnClosed = @ \/ broadcast[ch].closed]
    /\ UNCHANGED << calls, rulesMutex, nextId, budget, restOfBroker >>

\* the deferred unlock at the end of LogAttack
LogAttackUnlock(c) ==
    /\ tasks[c].todo = {}
    /\ rulesMutex' = IF tasks[c].shared THEN [rulesMutex EXCEPT !.readers = @ - 1]
                     ELSE [rulesMutex EXCEPT !.writer = FALSE]
    /\ tasks' = RemoveAt(tasks, c)
    /\ hist' = [hist EXCEPT !.finished = Append(@, tasks[c])]
    /\ UNCHANGED << broadcast, calls, nextId, budget, restOfBroker >>

\* SSEHandler reads an entry from its channel
Receive(ch) ==
    /\ broadcast[ch].buf # << >>
    /\ broadcast' = [broadcast EXCEPT ![ch].buf = Tail(@)]
    /\ UNCHANGED << calls, tasks, rulesMutex, nextId, budget, hist, restOfBroker >>

NextBroker ==
    \/ Subscribe
    \/ \E ch \in DOMAIN broadcast : Unsubscribe(ch)
    \/ \E shared \in BOOLEAN : LogAttackLock(shared)
    \/ \E c \in DOMAIN tasks, ch \in DOMAIN broadcast : LogAttackSend(c, ch)
    \/ \E c \in DOMAIN tasks : LogAttackUnlock(c)
    \/ \E ch \in DOMAIN broadcast : Receive(ch)

SpecBroker == InitBroker /\ [][NextBroker]_vars

\* C38: emitting a log event never waits: while a LogAttack call has
\* subscribers left, its turn for each of them can be taken however full the
\* buffers are, with all turns taken it can return, and a finished call has
\* either queued or dropped the event for every subscriber, no buffer ever
\* holding more than its capacity.
C38_EmitNeverBlocks ==
    /\ \A c \in DOMAIN tasks :
          /\ \A ch \in tasks[c].todo : ENABLED LogAttackSend(c, ch)
          /\ tasks[c].todo = {} => ENABLED LogAttackUnlock(c)
    /\ \A k \in DOMAIN hist.finished :
          /\ hist.finished[k].sent \cup hist.finished[k].dropped
                = hist.finished[k].subs
          /\ hist.finished[k].sent \cap hist.finished[k].dropped = {}
    /\ \A ch \in DOMAIN broadcast : Len(broadcast[ch].buf) <= SubscriberCap

\* a LogAttack call returned after it found the buffer of a subscriber full
\* and dropped the event for it
C38_Witness ==
    \E k \in DOMAIN hist.finished : hist.finished[k].dropped # {}

\* C39: the broker never sends on a closed subscriber channel and never
\* closes a channel twice; an Unsubscribe of a channel that is not registered
\* changes nothing.
C39_NoSendOnClosedNoDoubleClose ==
    /\ ~hist.sentOnClosed
    /\ ~hist.closedTwice
    /\ \A ch \in DOMAIN broadcast : broadcast[ch].closed <=> ch \notin calls
    /\ \A c \in DOMAIN tasks : \A ch \in tasks[c].todo : ~broadcast[ch].closed

\* a channel was unsubscribed twice, the second call doing nothing, and a
\* LogAttack call ran with another subscriber registered
C39_Witness ==
    /\ hist.noops > 0
    /\ \E k \in DOMAIN hist.finished : hist.finished[k].sent # {}
    /\ \E ch \in DOMAIN broadcast : broadcast[ch].closed

\* the rows of one type in a zone of the resolver store
ZoneRowsOfType(zoneName, type) ==
    { k \in DOMAIN pdnsRecords :
         pdnsRecords[k].zone = zoneName /\ pdnsRecords[k].type = type }

\* every provisioning of the zone so far named the same two nameservers
SameNSPair(zoneName) ==
    Cardinality({ pdnsRecords[k].content : k \in ZoneRowsOfType(zoneName, "NS") }) = 2

\* C40: provisioning a zone again with the same name and the same pair of
\* nameservers leaves the resolver store as the first provisioning left it:
\* with no provisioning under way, the zone has exactly one SOA row and two
\* NS rows.
C40_ProvisionIdempotent ==
    \A z \in pdnsZones :
       (/\ \A k \in DOMAIN tasks : ~(tasks[k].kind = "provision" /\ tasks[k].zone = z)
        /\ SameNSPair(z))
         => /\ Cardinality(ZoneRowsOfType(z, "SOA")) = 1
            /\ Cardinality(ZoneRowsOfType(z, "NS")) = 2

=============================================================================
